---- MODULE Spec2Model ----
(***************************************************************************)
(* recall-app: the field-encrypted store (db.rs), the speaker resolver     *)
(* (main.rs: normalize_segments, collect_audio_by_speaker, best_match,     *)
(* process_segments, transcribe_file) and the lock/unlock commands         *)
(* (main.rs: unlock_db, enable_encryption; state.rs: AppState::open_db).   *)
(*                                                                         *)
(* Representation choices                                                  *)
(*  - uuid ids are fresh numbers drawn from per-table counters; created_at *)
(*    is the order of those numbers (rows are never re-timestamped).       *)
(*  - segments and embeddings are kept in rowid (insertion) order; their   *)
(*    uuid primary key is the row itself.                                  *)
(*  - a ciphertext is [key, data]: AES-256-GCM authenticates, so a keyed   *)
(*    decrypt succeeds exactly under the key the row was written with.     *)
(*  - every SQL statement and every provider call may fail; a call gets a  *)
(*    `fuel`: the number of fallible steps that succeed before one fails.  *)
(***************************************************************************)
EXTENDS Integers, Sequences, FiniteSets, TLC

\* ------------------------------------------------------------------ bounds
MaxSteps == 3
MaxSessions == 2
MaxSpeakers == 3
MaxSegs == 2
MaxEmbeddings == 3

\* ------------------------------------------------------- program constants
TARGET_SPEAKER_MS == 10000
\* MATCH_THRESHOLD = 0.78 as the fraction THRESHOLD_NUM / THRESHOLD_DEN
THRESHOLD_NUM == 78
THRESHOLD_DEN == 100
\* the 1_000 ms default span of normalize_segments
DEFAULT_SPAN_MS == 1000
\* the length of nonce_bytes in Crypto::encrypt
NONCE_LEN == 12

\* Option::None of a label / of a speaker id (String::new() in process_segments)
NoLabel == "<none>"
NoId == 0
\* Crypto.salt = None / no meta row; password = None
NoSalt == "<nosalt>"
NoPassword == "<nopassword>"
\* Crypto.key = None.  A key is the pair it was derived from.
NoKey == [pw |-> NoPassword, salt |-> NoSalt]
\* no call logged
NoCall == [op |-> "none"]
\* AppState.db = None
NoDb == [open |-> FALSE, key |-> NoKey, salt |-> NoSalt, poisoned |-> FALSE]

\* the threads that call methods of one Db, none of them inside a method:
\* who holds the guard of Db.conn (0: nobody) and, per thread, the method it
\* is in, its argument and how many of its statements have run
Threads == {1, 2}
NotCalling == [op |-> "none", arg |-> 0, done |-> 0]
NoCallers == [holder |-> 0, app |-> 0, at |-> [t \in Threads |-> NotCalling]]

\* RecordingManager::default(): current is None and no thread runs
NoRecorder ==
    [current |-> FALSE,     \* RecordingManager.current is Some
     rec |-> "none",        \* where the recorder thread (Recorder.handle) is
     wr |-> "none",         \* where the writer thread is
     stop_sent |-> FALSE,   \* a () is in the stop channel
     stop_flag |-> FALSE,   \* the AtomicBool the three threads share
     stream |-> FALSE,      \* the input stream and its callback are alive
     data_tx |-> FALSE,     \* the recorder thread holds its sender
     chan |-> <<>>,         \* the chunks sent and not yet received
     file |-> <<>>,         \* the chunks written to the output file
     finalized |-> FALSE,   \* WavWriter::finalize has returned Ok
     stopping |-> FALSE,    \* stop() is between its send and its return
     sent |-> 0,            \* the chunks the callback has sent
     queued_at_stop |-> <<>>] \* chan when stop() sent the stop signal

\* AppState::new: embedder is None; the ONNX model is not in the data
\* directory ("missing": in no place ensure_model_present looks at,
\* "candidate": in ./models, "installed": in the data directory)
NoEmbedder == [loaded |-> FALSE, model |-> "missing"]

Max(a, b) == IF a >= b THEN a ELSE b
Min(a, b) == IF a <= b THEN a ELSE b

\* ------------------------------------------------------------ input domains
Clusters == {"speaker_0", "speaker_1"}
\* the provider span of the store specification: inside the clip
Spans == {<<0, 1000>>}
\* embedding vectors the provider may return: cosine 1 with itself, 0.6 with
\* the other
Vectors == {<<4, 3>>, <<0, 5>>}
Transcripts == {"hello"}
InsertLabels == {NoLabel}
RenameLabels == {"Alice"}
\* the clip every transcription reads: 4 mono samples at 2 Hz = 2000 ms
TheClip == [samples |-> <<11, 12, 13, 14>>, sample_rate |-> 2]

VARIABLES
    salt,           \* meta row 'salt' of the backing file (NoSalt: absent)
    sessions,       \* table sessions: set of [id, ct]
    speakers,       \* table speakers: set of [id, label]
    segments,       \* table segments: rows in rowid order
    embeddings,     \* table embeddings: rows in rowid order
    nextSession,    \* next fresh session id
    nextSpeaker,    \* next fresh speaker id
    db,             \* AppState.db: NoDb or the open handle's Crypto
    encryption_enabled, \* AppConfig.encryption_enabled
    ret,            \* the last command and what it returned
    steps,          \* number of commands issued so far
    call,           \* the arguments of the last call, where a step logs them
    callers,        \* the threads inside methods of Db and the connection lock
    recorder,       \* RecordingManager.current and the threads of a recording
    embedder        \* AppState.embedder and the model file it is loaded from

vars == <<salt, sessions, speakers, segments, embeddings, nextSession,
          nextSpeaker, db, encryption_enabled, ret, steps, call, callers,
          recorder, embedder>>

\* the tables as one value, for the operators that run several statements
Store == [sessions |-> sessions, speakers |-> speakers, segments |-> segments,
          embeddings |-> embeddings, nextSession |-> nextSession,
          nextSpeaker |-> nextSpeaker]

SetStore(d) ==
    /\ sessions' = d.sessions
    /\ speakers' = d.speakers
    /\ segments' = d.segments
    /\ embeddings' = d.embeddings
    /\ nextSession' = d.nextSession
    /\ nextSpeaker' = d.nextSpeaker

\* ------------------------------------------------------------------ Crypto
\* Crypto::encrypt: keyed -> AES-GCM under the key; unkeyed -> base64 of data
encrypt(crypto, data) == [key |-> crypto.key, data |-> data]

\* Crypto::decrypt: "ok" with the bytes, "err", or "panic".  An unkeyed
\* engine base64-decodes whatever is stored and returns it unchecked (`clear`
\* tells whether those bytes are the plaintext that was written).  A keyed
\* engine returns the plaintext under the writing key, an error under any
\* other key, and panics in Nonce::from_slice on the empty nonce of a row an
\* unkeyed engine wrote.
decrypt(crypto, ct) ==
    IF crypto.key = NoKey
    THEN [st |-> "ok", data |-> ct.data, clear |-> ct.key = NoKey]
    ELSE IF ct.key = NoKey
         THEN [st |-> "panic", data |-> ct.data, clear |-> FALSE]
         ELSE IF ct.key = crypto.key
              THEN [st |-> "ok", data |-> ct.data, clear |-> TRUE]
              ELSE [st |-> "err", data |-> ct.data, clear |-> FALSE]

\* bytemuck::cast_slice of a Vec<f32>: 4 bytes per component
cast_to_bytes(vector) == [len |-> 4 * Len(vector), floats |-> vector]

\* ------------------------------------------------------------------- vault
\* passphrases a user may type
Passphrases == {"pw1", "pw2"}
\* values SaltString::generate may return
GenSalts == {"saltA", "saltB"}
\* stored salt strings SaltString::from_b64 rejects
InvalidSalts == {"not-b64!"}
\* what String::from_utf8(..).unwrap_or_default() makes of bytes that are not
\* the plaintext
Garbled == "<garbled>"

\* SaltString::from_b64(&salt).is_ok()
valid_b64(s) == s \notin InvalidSalts

\* Argon2::default().hash_password_into(pw, salt_bytes, key_bytes): the key is
\* a function of the passphrase and the salt bytes
kdf(password, salt_obj) == [pw |-> password, salt |-> salt_obj]

\* Crypto::new; gen is the value SaltString::generate returns if it is called
crypto_new(password, salt_in, gen) ==
    IF password = NoPassword
    THEN [key |-> NoKey, salt |-> salt_in]
    ELSE LET salt_str == IF salt_in = NoSalt THEN gen ELSE salt_in
             salt_obj == IF valid_b64(salt_str) THEN salt_str ELSE gen
         IN  [key |-> kdf(password, salt_obj), salt |-> salt_str]

\* AppState.db = Some(Db { crypto, .. })
handle(crypto) == [open |-> TRUE, key |-> crypto.key, salt |-> crypto.salt, poisoned |-> FALSE]

\* Db::load_existing_salt: the meta row, None when the file, the table or the
\* row is missing, Err when the connection or the query fails
load_existing_salt(file_salt, io_ok) ==
    IF io_ok THEN [ok |-> TRUE, salt |-> file_salt]
    ELSE [ok |-> FALSE, salt |-> NoSalt]

\* persist_salt_if_missing that saves without looking for an existing row
\* (save_salt is an INSERT OR REPLACE)
persist_salt_always(file_salt, crypto, fuel) ==
    IF crypto.salt = NoSalt THEN [ok |-> TRUE, salt |-> file_salt]
    ELSE IF fuel < 2 THEN [ok |-> FALSE, salt |-> file_salt]
    ELSE [ok |-> TRUE, salt |-> crypto.salt]

\* Db::persist_salt_if_missing: [ok, salt] with the meta row afterwards
persist_salt_if_missing(file_salt, crypto, fuel) ==
    IF crypto.salt = NoSalt THEN [ok |-> TRUE, salt |-> file_salt]
    ELSE IF fuel = 0 THEN [ok |-> FALSE, salt |-> file_salt]
    ELSE IF file_salt # NoSalt THEN [ok |-> TRUE, salt |-> file_salt]
    ELSE IF fuel = 1 THEN [ok |-> FALSE, salt |-> file_salt]
    ELSE [ok |-> TRUE, salt |-> crypto.salt]

\* Db::open: Connection::open, init_schema, persist_salt_if_missing.  No row
\* is read or decrypted.
db_open(file_salt, crypto, fuel) ==
    IF fuel < 2 THEN [ok |-> FALSE, salt |-> file_salt]
    ELSE persist_salt_if_missing(file_salt, crypto, fuel - 2)

\* Db::list_sessions: newest first; the first row that fails to decrypt
\* fails the call
RECURSIVE list_rows(_, _, _)
list_rows(rows, crypto, acc) ==
    IF rows = {} THEN [ok |-> TRUE, rows |-> acc]
    ELSE LET r == CHOOSE x \in rows : \A y \in rows : y.id <= x.id
             dec == decrypt(crypto, r.ct)
         IN  IF dec.st # "ok" THEN [ok |-> FALSE, rows |-> <<>>]
             ELSE list_rows(rows \ {r}, crypto,
                            Append(acc, [id |-> r.id,
                                         transcript |-> IF dec.clear
                                                        THEN dec.data
                                                        ELSE Garbled]))

list_sessions(d, crypto, fuel) ==
    IF fuel = 0 THEN [ok |-> FALSE, rows |-> <<>>]
    ELSE list_rows(d.sessions, crypto, <<>>)

\* the ciphertexts of the sessions rows in the order list_sessions reads them
RECURSIVE newest_first(_)
newest_first(rows) ==
    IF rows = {} THEN <<>>
    ELSE LET r == CHOOSE x \in rows : \A y \in rows : y.id <= x.id
         IN  <<r.ct>> \o newest_first(rows \ {r})

\* how the decrypt loop of a list_* method ends over these ciphertexts: "ok",
\* or the outcome of the first decrypt that is not Ok
RECURSIVE first_failure(_, _)
first_failure(cts, crypto) ==
    IF cts = <<>> THEN "ok"
    ELSE IF decrypt(crypto, Head(cts)).st # "ok"
         THEN decrypt(crypto, Head(cts)).st
    ELSE first_failure(Tail(cts), crypto)

\* ------------------------------------------------------- Crypto, byte level
\* The (nonce, ciphertext) pair of strings that encrypt returns and decrypt
\* takes.  Bytes are numbers 0..255; a base64 string is the sequence of the
\* values of its characters, Pad standing for '='.  AES-256-GCM is idealised:
\* the body is the plaintext masked by a byte that depends on key and nonce,
\* and the 16-byte tag verifies exactly under the key and nonce that sealed
\* it.  The [key, data] ciphertext of the tables above abstracts this pair.
Pad == 63 + 1

\* general_purpose::STANDARD.encode
RECURSIVE b64_encode(_)
b64_encode(b) ==
    IF Len(b) = 0 THEN <<>>
    ELSE IF Len(b) = 1
         THEN <<b[1] \div 4, (b[1] % 4) * 16, Pad, Pad>>
    ELSE IF Len(b) = 2
         THEN <<b[1] \div 4, (b[1] % 4) * 16 + b[2] \div 16, (b[2] % 16) * 4, Pad>>
    ELSE <<b[1] \div 4, (b[1] % 4) * 16 + b[2] \div 16,
           (b[2] % 16) * 4 + b[3] \div 64, b[3] % 64>>
         \o b64_encode(SubSeq(b, 4, Len(b)))

\* general_purpose::STANDARD.decode: [ok, bytes]; padding is required and
\* canonical, trailing bits must be zero
RECURSIVE b64_decode(_)
b64_decode(t) ==
    IF Len(t) = 0 THEN [ok |-> TRUE, bytes |-> <<>>]
    ELSE IF Len(t) < 4 \/ t[1] = Pad \/ t[2] = Pad
         THEN [ok |-> FALSE, bytes |-> <<>>]
    ELSE IF t[3] = Pad
         THEN IF Len(t) = 4 /\ t[4] = Pad /\ t[2] % 16 = 0
              THEN [ok |-> TRUE, bytes |-> <<t[1] * 4 + t[2] \div 16>>]
              ELSE [ok |-> FALSE, bytes |-> <<>>]
    ELSE IF t[4] = Pad
         THEN IF Len(t) = 4 /\ t[3] % 4 = 0
              THEN [ok |-> TRUE,
                    bytes |-> <<t[1] * 4 + t[2] \div 16,
                                (t[2] % 16) * 16 + t[3] \div 4>>]
              ELSE [ok |-> FALSE, bytes |-> <<>>]
    ELSE LET rest == b64_decode(SubSeq(t, 5, Len(t)))
         IN  [ok |-> rest.ok,
              bytes |-> IF rest.ok
                        THEN <<t[1] * 4 + t[2] \div 16,
                               (t[2] % 16) * 16 + t[3] \div 4,
                               (t[3] % 4) * 64 + t[4]>> \o rest.bytes
                        ELSE <<>>]

\* the keys Crypto::new can derive, numbered
AllKeys == {kdf(p, g) : p \in Passphrases, g \in GenSalts}
KeyIndex ==
    CHOOSE f \in [AllKeys -> 1..Cardinality(AllKeys)] :
        \A j, k \in AllKeys : f[j] = f[k] => j = k

RECURSIVE byte_sum(_)
byte_sum(b) == IF b = <<>> THEN 0 ELSE Head(b) + byte_sum(Tail(b))

\* the keystream byte and the tag of the idealised cipher
aead_mask(key, nonce) == (KeyIndex[key] + nonce[1]) % 256
aead_tag(key, nonce, plain) ==
    <<KeyIndex[key], nonce[1], byte_sum(plain) % 256>> \o [i \in 1..13 |-> 0]

\* Aes256Gcm::encrypt(nonce, data): body then tag
aead_encrypt(key, nonce, plain) ==
    [i \in 1..Len(plain) |-> (plain[i] + aead_mask(key, nonce)) % 256]
    \o aead_tag(key, nonce, plain)

\* Aes256Gcm::decrypt(nonce, data): [ok, bytes]
aead_decrypt(key, nonce, sealed) ==
    IF Len(sealed) < 16 THEN [ok |-> FALSE, bytes |-> <<>>]
    ELSE LET n == Len(sealed) - 16
             plain == [i \in 1..n |->
                          (sealed[i] + 256 - aead_mask(key, nonce)) % 256]
         IN  IF SubSeq(sealed, n + 1, Len(sealed)) = aead_tag(key, nonce, plain)
             THEN [ok |-> TRUE, bytes |-> plain]
             ELSE [ok |-> FALSE, bytes |-> <<>>]

\* Crypto::encrypt; nonce_bytes is what OsRng.fill_bytes produced
encrypt_wire(crypto, nonce_bytes, data) ==
    IF crypto.key # NoKey
    THEN [nonce_b64 |-> b64_encode(nonce_bytes),
          ct_b64 |-> b64_encode(aead_encrypt(crypto.key, nonce_bytes, data))]
    ELSE [nonce_b64 |-> <<>>, ct_b64 |-> b64_encode(data)]

\* Crypto::decrypt that hands the nonce string to the cipher without
\* base64-decoding it
decrypt_wire_raw_nonce(crypto, nonce_b64, ct_b64) ==
    LET data == b64_decode(ct_b64)
    IN  IF ~data.ok THEN [st |-> "err"]
        ELSE IF crypto.key # NoKey
        THEN IF Len(nonce_b64) # NONCE_LEN THEN [st |-> "panic"]
             ELSE LET plain == aead_decrypt(crypto.key, nonce_b64, data.bytes)
                  IN  IF plain.ok THEN [st |-> "ok", data |-> plain.bytes]
                      ELSE [st |-> "err"]
        ELSE [st |-> "ok", data |-> data.bytes]

\* Crypto::decrypt without its keyed branch: the decoded bytes are returned
\* as they are
decrypt_wire_unkeyed_only(crypto, nonce_b64, ct_b64) ==
    LET data == b64_decode(ct_b64)
    IN  IF ~data.ok THEN [st |-> "err"]
        ELSE [st |-> "ok", data |-> data.bytes]

\* Crypto::decrypt: "ok" with the bytes, "err", or "panic" (Nonce::from_slice
\* on a nonce that is not NONCE_LEN bytes long)
decrypt_wire(crypto, nonce_b64, ct_b64) ==
    LET data == b64_decode(ct_b64)
    IN  IF ~data.ok THEN [st |-> "err"]
        ELSE IF crypto.key # NoKey
        THEN LET nonce == b64_decode(nonce_b64)
             IN  IF ~nonce.ok THEN [st |-> "err"]
                 ELSE IF Len(nonce.bytes) # NONCE_LEN THEN [st |-> "panic"]
                 ELSE LET plain == aead_decrypt(crypto.key, nonce.bytes,
                                                data.bytes)
                      IN  IF plain.ok THEN [st |-> "ok", data |-> plain.bytes]
                          ELSE [st |-> "err"]
        ELSE [st |-> "ok", data |-> data.bytes]

\* ---------------------------------------------------------------------- Db
\* Each operator takes the tables d and a fuel and returns
\* [d, ok, fuel, rows]: the tables after the statements that ran, whether the
\* call returned Ok, the fuel left, and the number of rows the statements
\* changed.

Result(d, ok, fuel, rows) == [d |-> d, ok |-> ok, fuel |-> fuel, rows |-> rows]

insert_session(d, crypto, transcript, fuel) ==
    IF fuel = 0 THEN Result(d, FALSE, 0, 0)
    ELSE Result([d EXCEPT !.sessions = @ \cup {[id |-> d.nextSession,
                                                ct |-> encrypt(crypto, transcript)]},
                          !.nextSession = @ + 1],
                TRUE, fuel - 1, 1)

\* delete_session without its third statement: the embeddings sourced from
\* the session stay
delete_session_keeps_embeddings(d, session_id, fuel) ==
    LET n1 == Cardinality({s \in d.sessions : s.id = session_id})
        d1 == IF fuel >= 1
              THEN [d EXCEPT !.sessions = {s \in @ : s.id # session_id}]
              ELSE d
        n2 == Len(SelectSeq(d.segments, LAMBDA g : g.session_id = session_id))
        d2 == IF fuel >= 2
              THEN [d1 EXCEPT !.segments =
                        SelectSeq(@, LAMBDA g : g.session_id # session_id)]
              ELSE d1
    IN  Result(d2, fuel >= 3, Max(fuel - 3, 0),
               (IF fuel >= 1 THEN n1 ELSE 0) + (IF fuel >= 2 THEN n2 ELSE 0))

\* delete_session inside one transaction: all three statements or none
delete_session_in_transaction(d, session_id, fuel) ==
    IF fuel < 3 THEN Result(d, FALSE, 0, 0)
    ELSE Result([d EXCEPT
                   !.sessions = {s \in @ : s.id # session_id},
                   !.segments = SelectSeq(@, LAMBDA g : g.session_id # session_id),
                   !.embeddings =
                       SelectSeq(@, LAMBDA e : e.source_session_id # session_id)],
                TRUE, fuel - 3, 0)

delete_session(d, session_id, fuel) ==
    LET n1 == Cardinality({s \in d.sessions : s.id = session_id})
        d1 == IF fuel >= 1
              THEN [d EXCEPT !.sessions = {s \in @ : s.id # session_id}]
              ELSE d
        n2 == Len(SelectSeq(d.segments, LAMBDA g : g.session_id = session_id))
        d2 == IF fuel >= 2
              THEN [d1 EXCEPT !.segments =
                        SelectSeq(@, LAMBDA g : g.session_id # session_id)]
              ELSE d1
        n3 == Len(SelectSeq(d.embeddings,
                            LAMBDA e : e.source_session_id = session_id))
        d3 == IF fuel >= 3
              THEN [d2 EXCEPT !.embeddings =
                        SelectSeq(@, LAMBDA e : e.source_session_id # session_id)]
              ELSE d2
    IN  Result(d3, fuel >= 3, Max(fuel - 3, 0),
               (IF fuel >= 1 THEN n1 ELSE 0) + (IF fuel >= 2 THEN n2 ELSE 0)
               + (IF fuel >= 3 THEN n3 ELSE 0))

insert_speaker(d, label, fuel) ==
    IF fuel = 0 THEN Result(d, FALSE, 0, 0)
    ELSE Result([d EXCEPT !.speakers = @ \cup {[id |-> d.nextSpeaker,
                                                label |-> label]},
                          !.nextSpeaker = @ + 1],
                TRUE, fuel - 1, 1)

\* rename_speaker whose second UPDATE has no WHERE clause
rename_speaker_all_segments(d, speaker_id, new_label, fuel) ==
    LET n1 == Cardinality({s \in d.speakers : s.id = speaker_id})
        d1 == IF fuel >= 1
              THEN [d EXCEPT !.speakers =
                        {IF s.id = speaker_id THEN [s EXCEPT !.label = new_label]
                                              ELSE s : s \in @}]
              ELSE d
        d2 == IF fuel >= 2
              THEN [d1 EXCEPT !.segments =
                        [i \in 1..Len(@) |->
                            [@[i] EXCEPT !.speaker_label = new_label]]]
              ELSE d1
    IN  Result(d2, fuel >= 2, Max(fuel - 2, 0),
               (IF fuel >= 1 THEN n1 ELSE 0)
               + (IF fuel >= 2 THEN Len(d.segments) ELSE 0))

rename_speaker(d, speaker_id, new_label, fuel) ==
    LET n1 == Cardinality({s \in d.speakers : s.id = speaker_id})
        d1 == IF fuel >= 1
              THEN [d EXCEPT !.speakers =
                        {IF s.id = speaker_id THEN [s EXCEPT !.label = new_label]
                                              ELSE s : s \in @}]
              ELSE d
        n2 == Len(SelectSeq(d.segments, LAMBDA g : g.speaker_id = speaker_id))
        d2 == IF fuel >= 2
              THEN [d1 EXCEPT !.segments =
                        [i \in 1..Len(@) |->
                            IF @[i].speaker_id = speaker_id
                            THEN [@[i] EXCEPT !.speaker_label = new_label]
                            ELSE @[i]]]
              ELSE d1
    IN  Result(d2, fuel >= 2, Max(fuel - 2, 0),
               (IF fuel >= 1 THEN n1 ELSE 0) + (IF fuel >= 2 THEN n2 ELSE 0))

\* delete_speaker without its first statement: the speaker's embeddings stay
delete_speaker_keeps_embeddings(d, speaker_id, fuel) ==
    LET n2 == Cardinality({s \in d.speakers : s.id = speaker_id})
        d2 == IF fuel >= 2
              THEN [d EXCEPT !.speakers = {s \in @ : s.id # speaker_id}]
              ELSE d
        n3 == Len(SelectSeq(d.segments, LAMBDA g : g.speaker_id = speaker_id))
        d3 == IF fuel >= 3
              THEN [d2 EXCEPT !.segments =
                        [i \in 1..Len(@) |->
                            IF @[i].speaker_id = speaker_id
                            THEN [@[i] EXCEPT !.speaker_id = NoId,
                                              !.speaker_label = NoLabel]
                            ELSE @[i]]]
              ELSE d2
    IN  Result(d3, fuel >= 3, Max(fuel - 3, 0),
               (IF fuel >= 2 THEN n2 ELSE 0) + (IF fuel >= 3 THEN n3 ELSE 0))

\* delete_speaker whose third statement deletes the referencing segments
\* instead of clearing their speaker columns
delete_speaker_drops_segments(d, speaker_id, fuel) ==
    LET n1 == Len(SelectSeq(d.embeddings, LAMBDA e : e.speaker_id = speaker_id))
        d1 == IF fuel >= 1
              THEN [d EXCEPT !.embeddings =
                        SelectSeq(@, LAMBDA e : e.speaker_id # speaker_id)]
              ELSE d
        n2 == Cardinality({s \in d.speakers : s.id = speaker_id})
        d2 == IF fuel >= 2
              THEN [d1 EXCEPT !.speakers = {s \in @ : s.id # speaker_id}]
              ELSE d1
        n3 == Len(SelectSeq(d.segments, LAMBDA g : g.speaker_id = speaker_id))
        d3 == IF fuel >= 3
              THEN [d2 EXCEPT !.segments =
                        SelectSeq(@, LAMBDA g : g.speaker_id # speaker_id)]
              ELSE d2
    IN  Result(d3, fuel >= 3, Max(fuel - 3, 0),
               (IF fuel >= 1 THEN n1 ELSE 0) + (IF fuel >= 2 THEN n2 ELSE 0)
               + (IF fuel >= 3 THEN n3 ELSE 0))

delete_speaker(d, speaker_id, fuel) ==
    LET n1 == Len(SelectSeq(d.embeddings, LAMBDA e : e.speaker_id = speaker_id))
        d1 == IF fuel >= 1
              THEN [d EXCEPT !.embeddings =
                        SelectSeq(@, LAMBDA e : e.speaker_id # speaker_id)]
              ELSE d
        n2 == Cardinality({s \in d.speakers : s.id = speaker_id})
        d2 == IF fuel >= 2
              THEN [d1 EXCEPT !.speakers = {s \in @ : s.id # speaker_id}]
              ELSE d1
        n3 == Len(SelectSeq(d.segments, LAMBDA g : g.speaker_id = speaker_id))
        d3 == IF fuel >= 3
              THEN [d2 EXCEPT !.segments =
                        [i \in 1..Len(@) |->
                            IF @[i].speaker_id = speaker_id
                            THEN [@[i] EXCEPT !.speaker_id = NoId,
                                              !.speaker_label = NoLabel]
                            ELSE @[i]]]
              ELSE d2
    IN  Result(d3, fuel >= 3, Max(fuel - 3, 0),
               (IF fuel >= 1 THEN n1 ELSE 0) + (IF fuel >= 2 THEN n2 ELSE 0)
               + (IF fuel >= 3 THEN n3 ELSE 0))

insert_segment(d, crypto, session_id, start_ms, end_ms, speaker_id, speaker_label, text, fuel) ==
    IF fuel = 0 THEN Result(d, FALSE, 0, 0)
    ELSE Result([d EXCEPT !.segments = Append(@,
                    [session_id |-> session_id, start_ms |-> start_ms,
                     end_ms |-> end_ms, speaker_id |-> speaker_id,
                     speaker_label |-> speaker_label,
                     ct |-> encrypt(crypto, text)])],
                TRUE, fuel - 1, 1)

insert_embedding(d, crypto, speaker_id, session_id, vector, fuel) ==
    IF fuel = 0 THEN Result(d, FALSE, 0, 0)
    ELSE Result([d EXCEPT !.embeddings = Append(@,
                    [speaker_id |-> speaker_id,
                     ct |-> encrypt(crypto, cast_to_bytes(vector)),
                     source_session_id |-> session_id])],
                TRUE, fuel - 1, 1)

\* the LEFT JOIN of list_embeddings: the speaker's label, NULL when no row
joined_label(d, speaker_id) ==
    IF \E s \in d.speakers : s.id = speaker_id
    THEN (CHOOSE s \in d.speakers : s.id = speaker_id).label
    ELSE NoLabel

\* Db::list_embeddings: the StoredEmbedding records in rowid order; any row
\* that fails to decrypt fails the call; a row whose byte length is not a
\* multiple of 4 is skipped.
list_embeddings(d, crypto) ==
    LET rows == d.embeddings
        bad == \E i \in 1..Len(rows) : decrypt(crypto, rows[i].ct).st # "ok"
        keep == SelectSeq(rows, LAMBDA e : decrypt(crypto, e.ct).data.len % 4 = 0)
    IN  [ok |-> ~bad,
         rows |-> IF bad THEN <<>>
                  ELSE [i \in 1..Len(keep) |->
                           [speaker_id |-> keep[i].speaker_id,
                            speaker_label |-> joined_label(d, keep[i].speaker_id),
                            vector |-> decrypt(crypto, keep[i].ct).data.floats,
                            source_session_id |-> keep[i].source_session_id]]]

\* Db::list_speakers
list_speakers(d) == d.speakers

\* ---------------------------------------------------------------- resolver
\* AudioClip::duration_ms
duration_ms(audio) ==
    IF audio.sample_rate = 0 THEN 0
    ELSE (Len(audio.samples) * 1000) \div audio.sample_rate

\* the loop body of normalize_segments (main.rs 410-417)
clamp_segment(seg, max_end) ==
    LET e1 == IF seg.end_ms = 0 \/ seg.end_ms < seg.start_ms
              THEN seg.start_ms + DEFAULT_SPAN_MS
              ELSE seg.end_ms
        e2 == IF max_end > 0 /\ e1 > max_end THEN max_end ELSE e1
    IN  [seg EXCEPT !.end_ms = e2]

\* Vec::sort_by_key(|s| s.start_ms): a stable sort, as insertion from the left
RECURSIVE sort_by_start(_)
sort_by_start(segs) ==
    IF Len(segs) <= 1 THEN segs
    ELSE LET last == segs[Len(segs)]
             init == sort_by_start(SubSeq(segs, 1, Len(segs) - 1))
             k == Cardinality({i \in 1..Len(init) : init[i].start_ms <= last.start_ms})
         IN  SubSeq(init, 1, k) \o <<last>> \o SubSeq(init, k + 1, Len(init))

\* normalize_segments whose synthetic segment always ends at the default span
normalize_segments_default_span(segs_in, transcript, audio) ==
    LET segs == IF segs_in = <<>>
                THEN <<[speaker |-> "speaker_0", start_ms |-> 0,
                        end_ms |-> DEFAULT_SPAN_MS,
                        text |-> transcript]>>
                ELSE segs_in
        max_end == duration_ms(audio)
    IN  sort_by_start([i \in 1..Len(segs) |-> clamp_segment(segs[i], max_end)])

\* normalize_segments; an absent list (None) and an empty one are both <<>>
normalize_segments(segs_in, transcript, audio) ==
    LET segs == IF segs_in = <<>>
                THEN <<[speaker |-> "speaker_0", start_ms |-> 0,
                        end_ms |-> Max(duration_ms(audio), DEFAULT_SPAN_MS),
                        text |-> transcript]>>
                ELSE segs_in
        max_end == duration_ms(audio)
    IN  sort_by_start([i \in 1..Len(segs) |-> clamp_segment(segs[i], max_end)])

EmptyMap == [k \in {} |-> <<>>]

\* the loop body with buckets.entry(..).or_default() ahead of the range tests
collect_one_entry_first(buckets, audio, seg) ==
    LET total_samples == Len(audio.samples)
        target_samples == Max(1, (audio.sample_rate * TARGET_SPEAKER_MS) \div 1000)
        start == (seg.start_ms * audio.sample_rate) \div 1000
        end == (seg.end_ms * audio.sample_rate + 999) \div 1000
        start_idx == Min(start, total_samples)
        end_idx == Min(end, total_samples)
        entry == IF seg.speaker \in DOMAIN buckets THEN buckets[seg.speaker]
                 ELSE <<>>
        remaining == Max(target_samples - Len(entry), 0)
        take_len == Min(remaining, end_idx - start_idx)
    IN  IF end <= start \/ end_idx <= start_idx \/ remaining = 0
        THEN (seg.speaker :> entry) @@ buckets
        ELSE (seg.speaker :> (entry \o SubSeq(audio.samples, start_idx + 1,
                                              start_idx + take_len))) @@ buckets

\* the loop body without the cap: every range is appended whole
collect_one_uncapped(buckets, audio, seg) ==
    LET total_samples == Len(audio.samples)
        start == (seg.start_ms * audio.sample_rate) \div 1000
        end == (seg.end_ms * audio.sample_rate + 999) \div 1000
        start_idx == Min(start, total_samples)
        end_idx == Min(end, total_samples)
        entry == IF seg.speaker \in DOMAIN buckets THEN buckets[seg.speaker]
                 ELSE <<>>
    IN  IF end <= start \/ end_idx <= start_idx THEN buckets
        ELSE (seg.speaker :> (entry \o SubSeq(audio.samples, start_idx + 1,
                                              end_idx))) @@ buckets

\* one iteration of the loop of collect_audio_by_speaker (main.rs 432-450)
collect_one(buckets, audio, seg) ==
    LET total_samples == Len(audio.samples)
        target_samples == Max(1, (audio.sample_rate * TARGET_SPEAKER_MS) \div 1000)
        start == (seg.start_ms * audio.sample_rate) \div 1000
        end == (seg.end_ms * audio.sample_rate + 999) \div 1000
        start_idx == Min(start, total_samples)
        end_idx == Min(end, total_samples)
        entry == IF seg.speaker \in DOMAIN buckets THEN buckets[seg.speaker]
                 ELSE <<>>
        remaining == Max(target_samples - Len(entry), 0)
        take_len == Min(remaining, end_idx - start_idx)
    IN  IF end <= start \/ end_idx <= start_idx THEN buckets
        ELSE IF remaining = 0 THEN (seg.speaker :> entry) @@ buckets
        ELSE (seg.speaker :> (entry \o SubSeq(audio.samples, start_idx + 1,
                                              start_idx + take_len))) @@ buckets

RECURSIVE collect_from(_, _, _, _)
collect_from(buckets, audio, segs, i) ==
    IF i > Len(segs) THEN buckets
    ELSE collect_from(collect_one(buckets, audio, segs[i]), audio, segs, i + 1)

collect_audio_by_speaker(audio, segs) == collect_from(EmptyMap, audio, segs, 1)

\* embedding::cosine_similarity as the exact fraction num / sqrt(den2);
\* 0 when either norm is 0
RECURSIVE dot(_, _)
dot(a, b) ==
    IF a = <<>> \/ b = <<>> THEN 0
    ELSE Head(a) * Head(b) + dot(Tail(a), Tail(b))

cosine_similarity(a, b) ==
    IF dot(a, a) = 0 \/ dot(b, b) = 0 THEN [num |-> 0, den2 |-> 1]
    ELSE [num |-> dot(a, b), den2 |-> dot(a, a) * dot(b, b)]

\* the comparison of best_match turned around: s >= t
score_ge(s, t) ==
    IF s.num >= 0 /\ t.num <= 0 THEN TRUE
    ELSE IF s.num <= 0 /\ t.num >= 0 THEN s.num = 0 /\ t.num = 0
    ELSE IF s.num > 0 THEN s.num * s.num * t.den2 >= t.num * t.num * s.den2
    ELSE s.num * s.num * t.den2 <= t.num * t.num * s.den2

\* s <= t for two such fractions
score_le(s, t) ==
    IF s.num <= 0 /\ t.num >= 0 THEN TRUE
    ELSE IF s.num >= 0 /\ t.num <= 0 THEN s.num = 0 /\ t.num = 0
    ELSE IF s.num > 0 THEN s.num * s.num * t.den2 <= t.num * t.num * s.den2
    ELSE s.num * s.num * t.den2 >= t.num * t.num * s.den2

\* score > MATCH_THRESHOLD
above_threshold(s) ==
    /\ s.num > 0
    /\ s.num * s.num * THRESHOLD_DEN * THRESHOLD_DEN
         > THRESHOLD_NUM * THRESHOLD_NUM * s.den2

\* score >= MATCH_THRESHOLD
at_least_threshold(s) ==
    /\ s.num > 0
    /\ s.num * s.num * THRESHOLD_DEN * THRESHOLD_DEN
         >= THRESHOLD_NUM * THRESHOLD_NUM * s.den2

\* the scan with `score < current` as its guard: a later record of the same
\* score replaces `best`
RECURSIVE best_scan_last_of_equals(_, _, _, _)
best_scan_last_of_equals(embedding, known, i, best) ==
    IF i > Len(known) THEN best
    ELSE IF Len(known[i].vector) # Len(embedding)
         THEN best_scan_last_of_equals(embedding, known, i + 1, best)
    ELSE IF best # 0 /\ ~score_ge(cosine_similarity(embedding, known[i].vector),
                                  cosine_similarity(embedding, known[best].vector))
         THEN best_scan_last_of_equals(embedding, known, i + 1, best)
    ELSE best_scan_last_of_equals(embedding, known, i + 1, i)

\* the scan of best_match (main.rs 459-469): the index of `best`, 0 for None
RECURSIVE best_scan(_, _, _, _)
best_scan(embedding, known, i, best) ==
    IF i > Len(known) THEN best
    ELSE IF Len(known[i].vector) # Len(embedding)
         THEN best_scan(embedding, known, i + 1, best)
    ELSE IF best # 0 /\ score_le(cosine_similarity(embedding, known[i].vector),
                                 cosine_similarity(embedding, known[best].vector))
         THEN best_scan(embedding, known, i + 1, best)
    ELSE best_scan(embedding, known, i + 1, i)

\* best_match: the index in `known` of the match, 0 for None
best_match(embedding, known) ==
    LET best == best_scan(embedding, known, 1, 0)
    IN  IF best # 0
           /\ at_least_threshold(cosine_similarity(embedding, known[best].vector))
        THEN best ELSE 0

\* a label counted from the number of speakers instead of that number + 1
speaker_label_zero_based(n) == "Speaker " \o ToString(n - 1)

\* format!("Speaker {}", next_label_index)
speaker_label_for(n) == "Speaker " \o ToString(n)

\* The state of one pass of process_segments: the tables, the in-memory
\* snapshot known_embeddings, next_label_index, diarization_to_profile, the
\* fuel left, whether the pass is still running without error, and the labels
\* format!("Speaker {}") has produced so far.
PassState(d, known, next, profile, fuel, ok, gen) ==
    [d |-> d, known |-> known, next |-> next, profile |-> profile,
     fuel |-> fuel, ok |-> ok, gen |-> gen]

\* the iteration without known_embeddings.push: later clusters are matched
\* against the snapshot taken at the start of the pass only
resolve_cluster_snapshot_only(st, speaker_key, pcm, embedding_vec, session_id, crypto) ==
    IF pcm = <<>> THEN st
    ELSE IF st.fuel = 0 THEN [st EXCEPT !.ok = FALSE]
    ELSE
      LET m == best_match(embedding_vec, st.known)
          unlabeled == m # 0 /\ st.known[m].speaker_label = NoLabel
          generates == m = 0 \/ unlabeled
          label == IF generates THEN speaker_label_for(st.next)
                   ELSE st.known[m].speaker_label
          next1 == IF generates THEN st.next + 1 ELSE st.next
          gen1 == IF generates THEN st.gen \cup {label} ELSE st.gen
          r1 == IF m = 0 THEN insert_speaker(st.d, label, st.fuel - 1)
                ELSE IF unlabeled
                     THEN rename_speaker(st.d, st.known[m].speaker_id, label,
                                         st.fuel - 1)
                ELSE Result(st.d, TRUE, st.fuel - 1, 0)
          speaker_id == IF m = 0 THEN st.d.nextSpeaker
                        ELSE st.known[m].speaker_id
          r2 == insert_embedding(r1.d, crypto, speaker_id, session_id,
                                 embedding_vec, r1.fuel)
      IN  IF ~r1.ok
          THEN PassState(r1.d, st.known, next1, st.profile, 0, FALSE, gen1)
          ELSE IF ~r2.ok
          THEN PassState(r2.d, st.known, next1, st.profile, 0, FALSE, gen1)
          ELSE PassState(r2.d, st.known, next1,
                         (speaker_key :> <<speaker_id, label>>) @@ st.profile,
                         r2.fuel, TRUE, gen1)

\* one iteration of the cluster loop of process_segments (main.rs 490-525)
resolve_cluster(st, speaker_key, pcm, embedding_vec, session_id, crypto) ==
    IF pcm = <<>> THEN st
    ELSE IF st.fuel = 0 THEN [st EXCEPT !.ok = FALSE]
    ELSE
      LET m == best_match(embedding_vec, st.known)
          unlabeled == m # 0 /\ st.known[m].speaker_label = NoLabel
          generates == m = 0 \/ unlabeled
          label == IF generates THEN speaker_label_for(st.next)
                   ELSE st.known[m].speaker_label
          next1 == IF generates THEN st.next + 1 ELSE st.next
          gen1 == IF generates THEN st.gen \cup {label} ELSE st.gen
          r1 == IF m = 0 THEN insert_speaker(st.d, label, st.fuel - 1)
                ELSE IF unlabeled
                     THEN rename_speaker(st.d, st.known[m].speaker_id, label,
                                         st.fuel - 1)
                ELSE Result(st.d, TRUE, st.fuel - 1, 0)
          speaker_id == IF m = 0 THEN st.d.nextSpeaker
                        ELSE st.known[m].speaker_id
          r2 == insert_embedding(r1.d, crypto, speaker_id, session_id,
                                 embedding_vec, r1.fuel)
      IN  IF ~r1.ok
          THEN PassState(r1.d, st.known, next1, st.profile, 0, FALSE, gen1)
          ELSE IF ~r2.ok
          THEN PassState(r2.d, st.known, next1, st.profile, 0, FALSE, gen1)
          ELSE PassState(r2.d,
                         Append(st.known,
                                [speaker_id |-> speaker_id,
                                 speaker_label |-> label,
                                 vector |-> embedding_vec,
                                 source_session_id |-> session_id]),
                         next1,
                         (speaker_key :> <<speaker_id, label>>) @@ st.profile,
                         r2.fuel, TRUE, gen1)

\* the cluster loop, in the order the HashMap yields its keys
RECURSIVE resolve_clusters(_, _, _, _, _, _)
resolve_clusters(st, order, buckets, vecs, session_id, crypto) ==
    IF order = <<>> \/ ~st.ok THEN st
    ELSE resolve_clusters(
             resolve_cluster(st, Head(order), buckets[Head(order)],
                             vecs[Head(order)], session_id, crypto),
             Tail(order), buckets, vecs, session_id, crypto)

\* a segment loop that stores only the segments of resolved clusters
RECURSIVE persist_resolved_segments(_, _, _, _, _)
persist_resolved_segments(st, segs, i, session_id, crypto) ==
    IF i > Len(segs) \/ ~st.ok THEN st
    ELSE IF segs[i].speaker \notin DOMAIN st.profile
         THEN persist_resolved_segments(st, segs, i + 1, session_id, crypto)
    ELSE
      LET seg == segs[i]
          pair == st.profile[seg.speaker]
          r == insert_segment(st.d, crypto, session_id, seg.start_ms,
                              seg.end_ms, pair[1], pair[2], seg.text, st.fuel)
      IN  persist_resolved_segments(
              [st EXCEPT !.d = r.d, !.ok = r.ok, !.fuel = r.fuel],
              segs, i + 1, session_id, crypto)

\* the segment loop of process_segments (main.rs 527-546)
RECURSIVE persist_segments(_, _, _, _, _)
persist_segments(st, segs, i, session_id, crypto) ==
    IF i > Len(segs) \/ ~st.ok THEN st
    ELSE
      LET seg == segs[i]
          pair == IF seg.speaker \in DOMAIN st.profile
                  THEN st.profile[seg.speaker]
                  ELSE <<NoId, seg.speaker>>
          r == insert_segment(st.d, crypto, session_id, seg.start_ms,
                              seg.end_ms, pair[1], pair[2], seg.text, st.fuel)
      IN  persist_segments([st EXCEPT !.d = r.d, !.ok = r.ok, !.fuel = r.fuel],
                           segs, i + 1, session_id, crypto)

\* process_segments: `order` is the iteration order of the bucket map and
\* vecs[k] what the embedder returns for cluster k
process_segments(d, crypto, audio, segs, session_id, order, vecs, fuel) ==
    LET listed == list_embeddings(d, crypto)
        start == PassState(d, listed.rows, Cardinality(list_speakers(d)) + 1,
                           EmptyMap, fuel - 2, TRUE, {})
        buckets == collect_audio_by_speaker(audio, segs)
    IN  IF fuel < 2 \/ ~listed.ok
        THEN PassState(d, <<>>, 0, EmptyMap, 0, FALSE, {})
        ELSE persist_segments(
                 resolve_clusters(start, order, buckets, vecs, session_id, crypto),
                 segs, 1, session_id, crypto)

\* transcribe_file that undoes the session row and the pass when the pass
\* fails
transcribe_file_rolled_back(d, crypto, api_segments, transcript, audio, order, vecs, fuel) ==
    LET segs == normalize_segments(api_segments, transcript, audio)
        r == insert_session(d, crypto, transcript, fuel)
        pass == process_segments(r.d, crypto, audio, segs, d.nextSession, order,
                                 vecs, r.fuel)
    IN  IF ~r.ok THEN PassState(d, <<>>, 0, EmptyMap, 0, FALSE, {})
        ELSE IF ~pass.ok THEN [pass EXCEPT !.d = d]
        ELSE pass

\* transcribe_file from the provider's answer on (main.rs 332-349); what
\* fails before insert_session changes nothing and is fuel = 0
transcribe_file(d, crypto, api_segments, transcript, audio, order, vecs, fuel) ==
    LET segs == normalize_segments(api_segments, transcript, audio)
        r == insert_session(d, crypto, transcript, fuel)
    IN  IF ~r.ok THEN PassState(d, <<>>, 0, EmptyMap, 0, FALSE, {})
        ELSE process_segments(r.d, crypto, audio, segs, d.nextSession, order,
                              vecs, r.fuel)

\* ------------------------------------------------------- Db, continued
\* Db::update_session_transcript
update_session_transcript(d, crypto, session_id, transcript, fuel) ==
    IF fuel = 0 THEN Result(d, FALSE, 0, 0)
    ELSE Result([d EXCEPT !.sessions =
                    {IF x.id = session_id
                     THEN [x EXCEPT !.ct = encrypt(crypto, transcript)]
                     ELSE x : x \in @}],
                TRUE, fuel - 1,
                Cardinality({x \in d.sessions : x.id = session_id}))

\* Db::list_segments: the session's rows by start_ms; the first row that
\* fails to decrypt fails the call
list_segments(d, crypto, session_id, fuel) ==
    LET rows == sort_by_start(SelectSeq(d.segments,
                                        LAMBDA g : g.session_id = session_id))
        ok == fuel > 0
              /\ first_failure([i \in 1..Len(rows) |-> rows[i].ct], crypto) = "ok"
    IN  [ok |-> ok, rows |-> IF ok THEN rows ELSE <<>>]

\* the ciphertexts list_segments decrypts, in its order
segment_cts(d, session_id) ==
    LET rows == sort_by_start(SelectSeq(d.segments,
                                        LAMBDA g : g.session_id = session_id))
    IN  [i \in 1..Len(rows) |-> rows[i].ct]

\* Db::load_salt
load_salt(file_salt, fuel) ==
    [ok |-> fuel > 0, salt |-> IF fuel > 0 THEN file_salt ELSE NoSalt]

\* ------------------------------------------------ the connection lock
\* the errors of a Db method: that of the poisoned lock, that of SQLite
LockError == "lock poisoned"
StoreError == "sqlite error"
\* no Result at all: the method unwound
Panicked == "panicked"

\* a Db method that runs its statements without looking at the lock
conn_lock_unchecked(h, d, r) ==
    [d |-> r.d, ok |-> r.ok, rows |-> r.rows,
     err |-> IF r.ok THEN NoLabel ELSE StoreError]

\* self.conn.lock().map_err(|_| "lock poisoned")? ahead of the statements of
\* a Db method: r is what the statements yield on the tables d
conn_lock(h, d, r) ==
    IF h.poisoned
    THEN [d |-> d, ok |-> FALSE, rows |-> 0, err |-> LockError]
    ELSE [d |-> r.d, ok |-> r.ok, rows |-> r.rows,
          err |-> IF r.ok THEN NoLabel ELSE StoreError]

\* what the decrypt loop of a list_* method makes of the listing r: a panic
\* unwinds through the guard and returns nothing
list_outcome(d, r, outcome) ==
    [d |-> d, ok |-> r.ok /\ outcome # "panic",
     rows |-> IF outcome = "panic" THEN 0 ELSE Len(r.rows)]

\* ----------------------------------------------------------------- actions
\* ret: the command, its id argument (or the id it returned), its string
\* argument, whether it returned Ok, the rows its statements changed, the
\* labels a pass generated and the duration of the clip a pass read
Ret(op, arg, text, ok, rows, gen, ms) ==
    [op |-> op, arg |-> arg, text |-> text, ok |-> ok, rows |-> rows,
     gen |-> gen, ms |-> ms]

SpeakerIds == 1..MaxSpeakers
SessionIds == 1..MaxSessions

\* the provider's segment lists: absent/empty, or up to MaxSegs segments
ApiSegments(spans) ==
    {[speaker |-> c, start_ms |-> sp[1], end_ms |-> sp[2], text |-> "seg"]
     : c \in Clusters, sp \in spans}

ApiSegmentLists(spans) == UNION {[1..n -> ApiSegments(spans)] : n \in 0..MaxSegs}

\* the orders in which a HashMap with key set K can be iterated
Orders(K) ==
    {o \in [1..Cardinality(K) -> K] : {o[i] : i \in DOMAIN o} = K}

\* the calls of one pass that can fail: insert_session, the two listings,
\* per cluster embed + rename (2 statements) + insert_embedding, per segment
\* insert_segment
PassCalls(buckets, segs) == 3 + 4 * Cardinality(DOMAIN buckets) + Len(segs)

\* a command is issued: the handle is there (db_guard.as_ref() is Some)
\* a command that finds the store open
OpenStep ==
    /\ db.open
    /\ steps < MaxSteps
    /\ steps' = steps + 1
    /\ UNCHANGED <<salt, db, encryption_enabled, callers, recorder, embedder>>

Command ==
    /\ OpenStep
    /\ call' = call

InsertSpeaker ==
    /\ Command
    /\ nextSpeaker <= MaxSpeakers
    /\ \E label \in InsertLabels, fuel \in 0..1 :
         \E r \in {insert_speaker(Store, label, fuel)} :
             /\ SetStore(r.d)
             /\ ret' = Ret("insert_speaker", IF r.ok THEN nextSpeaker ELSE NoId,
                           label, r.ok, r.rows, {}, 0)

\* Db::insert_embedding called on its own (an enrolment); the caller names a
\* stored speaker, as process_segments does
InsertEmbedding ==
    /\ Command
    /\ Len(embeddings) < MaxEmbeddings
    /\ \E p \in {s.id : s \in speakers}, sid \in SessionIds, v \in Vectors,
          fuel \in 0..1 :
         \E r \in {insert_embedding(Store, db, p, sid, v, fuel)} :
             /\ SetStore(r.d)
             /\ ret' = Ret("insert_embedding", p, NoLabel, r.ok, r.rows, {}, 0)

RenameSpeaker ==
    /\ Command
    /\ \E p \in SpeakerIds, label \in RenameLabels, fuel \in 0..2 :
         \E r \in {rename_speaker(Store, p, label, fuel)} :
             /\ SetStore(r.d)
             /\ ret' = Ret("rename_speaker", p, label, r.ok, r.rows, {}, 0)

DeleteSpeaker ==
    /\ Command
    /\ \E p \in SpeakerIds, fuel \in 0..3 :
         \E r \in {delete_speaker(Store, p, fuel)} :
             /\ SetStore(r.d)
             /\ ret' = Ret("delete_speaker", p, NoLabel, r.ok, r.rows, {}, 0)

DeleteSession ==
    /\ Command
    /\ \E sid \in SessionIds, fuel \in 0..3 :
         \E r \in {delete_session(Store, sid, fuel)} :
             /\ SetStore(r.d)
             /\ ret' = Ret("delete_session", sid, NoLabel, r.ok, r.rows, {}, 0)

\* command transcribe_file over provider spans, clips and embedder outputs
\* drawn from the given sets; `logged` tells whether the step records in
\* `call` the provider's answer, the clip, the embedder's outputs, the number
\* of fallible calls that succeed and the diarization_to_profile map the pass
\* ended with
TranscribeWith(spans, clips, vectors, logged) ==
    /\ OpenStep
    /\ nextSession <= MaxSessions
    /\ \E api \in ApiSegmentLists(spans), transcript \in Transcripts,
          audio \in clips :
         LET segs == normalize_segments(api, transcript, audio)
             buckets == collect_audio_by_speaker(audio, segs)
         IN  \E order \in Orders(DOMAIN buckets),
                vecs \in [DOMAIN buckets -> vectors],
                fuel \in 0..PassCalls(buckets, segs) :
               \E r \in {transcribe_file(Store, db, api, transcript, audio,
                                        order, vecs, fuel)} :
                   /\ r.d.nextSpeaker <= MaxSpeakers + 1
                   /\ Len(r.d.embeddings) <= MaxEmbeddings
                   /\ SetStore(r.d)
                   /\ ret' = Ret("transcribe_file",
                                 IF r.d.nextSession > nextSession
                                 THEN nextSession ELSE NoId,
                                 NoLabel, r.ok, 0, r.gen, duration_ms(audio))
                   /\ call' = IF logged
                              THEN [op |-> "transcribe_file", api |-> api,
                                    transcript |-> transcript, audio |-> audio,
                                    order |-> order, vecs |-> vecs,
                                    fuel |-> fuel, profile |-> r.profile]
                              ELSE call

TranscribeFile(spans, clips) == TranscribeWith(spans, clips, Vectors, FALSE)

\* main's setup with encryption disabled: open_db(Crypto::new(None, None)) on
\* a fresh data directory
Init ==
    /\ salt = NoSalt
    /\ sessions = {}
    /\ speakers = {}
    /\ segments = <<>>
    /\ embeddings = <<>>
    /\ nextSession = 1
    /\ nextSpeaker = 1
    /\ db = handle(crypto_new(NoPassword, NoSalt, NoSalt))
    /\ encryption_enabled = FALSE
    /\ ret = Ret("setup", NoId, NoLabel, TRUE, 0, {}, 0)
    /\ steps = 0
    /\ call = NoCall
    /\ callers = NoCallers
    /\ recorder = NoRecorder
    /\ embedder = NoEmbedder

Next ==
    \/ InsertSpeaker
    \/ InsertEmbedding
    \/ RenameSpeaker
    \/ DeleteSpeaker
    \/ DeleteSession
    \/ TranscribeFile(Spans, {TheClip})

Spec == Init /\ [][Next]_vars

\* ------------------------------------------------- the clip specification
\* One transcription of a fresh store, over provider spans that end at 0,
\* start beyond the clip or lie inside it, and over a clip shorter than 1 ms.
ClipSpans == {<<0, 1000>>, <<1000, 0>>, <<3000, 4000>>}
\* one sample at 2000 Hz: duration_ms = 0
ShortClip == [samples |-> <<11>>, sample_rate |-> 2000]
Clips == {TheClip, ShortClip}

NextClip ==
    /\ nextSession = 1
    /\ TranscribeFile(ClipSpans, Clips)

SpecClip == Init /\ [][NextClip]_vars

\* ------------------------------------------------- the pass specification
\* Transcriptions only: earlier ones that fill the store, then one recorded
\* in `call`, over spans inside the clip and beyond its end.  The embedder's
\* outputs score 1, exactly 0.78 and below 0.78 against <<7, 1, 0>>, or have
\* another length.
PassSpans == {<<0, 1000>>, <<3000, 4000>>}
PassVectors == {<<7, 1, 0>>, <<5, 4, 3>>, <<5, 4, 4>>, <<4, 3>>}

Enroll ==
    /\ call = NoCall
    /\ TranscribeWith(Spans, {TheClip}, PassVectors, FALSE)

Pass ==
    /\ call = NoCall
    /\ TranscribeWith(PassSpans, {TheClip}, PassVectors, TRUE)

NextPass ==
    \/ Enroll
    \/ Pass

SpecPass == Init /\ [][NextPass]_vars

\* ------------------------------------------------ the vault specification
MaxVaultSteps == 5

VaultCommand ==
    /\ steps < MaxVaultSteps
    /\ steps' = steps + 1
    /\ UNCHANGED <<call, callers, recorder, embedder>>

\* the tables of a backing file that does not exist
EmptyStore == [sessions |-> {}, speakers |-> {}, segments |-> <<>>,
               embeddings |-> <<>>, nextSession |-> nextSession,
               nextSpeaker |-> nextSpeaker]

\* command enable_encryption (the config file is not modelled).  The result
\* of remove_file is dropped: `removed` tells whether the file is gone.
\* When the lock of app_state.db is poisoned the command returns after it
\* has saved the configuration.
EnableEncryption ==
    /\ VaultCommand
    /\ encryption_enabled' = TRUE
    /\ \E password \in Passphrases :
         IF db.poisoned
         THEN /\ ret' = Ret("enable_encryption", NoId, password, FALSE, 0, {}, 0)
              /\ UNCHANGED <<salt, sessions, speakers, segments, embeddings,
                             nextSession, nextSpeaker, db>>
         ELSE \E gen \in GenSalts, removed \in BOOLEAN, fuel \in 0..4 :
           \E crypto \in {crypto_new(password, NoSalt, gen)} :
             \E r \in {db_open(IF removed THEN NoSalt ELSE salt, crypto, fuel)} :
               /\ SetStore(IF removed THEN EmptyStore ELSE Store)
               /\ salt' = r.salt
               /\ db' = IF r.ok THEN handle(crypto) ELSE NoDb
               /\ ret' = Ret("enable_encryption", NoId, password, r.ok, 0, {}, 0)

\* command unlock_db; open_db runs Db::open before it takes the lock of
\* app_state.db, so a poisoned lock fails the command after the open
UnlockDb ==
    /\ VaultCommand
    /\ \E password \in Passphrases :
         IF ~encryption_enabled
         THEN /\ ret' = Ret("unlock_db", NoId, password, FALSE, 0, {}, 0)
              /\ UNCHANGED <<salt, sessions, speakers, segments, embeddings,
                             nextSession, nextSpeaker, db, encryption_enabled>>
         ELSE \E gen \in GenSalts, io_ok \in BOOLEAN, fuel \in 0..4 :
                \E crypto \in {crypto_new(password,
                                          load_existing_salt(salt, io_ok).salt,
                                          gen)} :
                  \E r \in {db_open(salt, crypto, fuel)} :
                    /\ salt' = r.salt
                    /\ db' = IF r.ok /\ ~db.poisoned THEN handle(crypto)
                             ELSE db
                    /\ ret' = Ret("unlock_db", NoId, password,
                                  r.ok /\ ~db.poisoned, 0, {}, 0)
                    /\ UNCHANGED <<sessions, speakers, segments, embeddings,
                                   nextSession, nextSpeaker, encryption_enabled>>

\* the process exits and main's setup runs again on the same data directory
Restart ==
    /\ VaultCommand
    /\ \E fuel \in 0..2 :
         \E r \in {db_open(salt, crypto_new(NoPassword, NoSalt, NoSalt), fuel)} :
           /\ db' = IF ~encryption_enabled /\ r.ok
                    THEN handle(crypto_new(NoPassword, NoSalt, NoSalt))
                    ELSE NoDb
           /\ ret' = Ret("setup", NoId, NoLabel, TRUE, 0, {}, 0)
    /\ UNCHANGED <<salt, sessions, speakers, segments, embeddings, nextSession,
                   nextSpeaker, encryption_enabled>>

\* Db::insert_session through the open handle
WriteSession ==
    /\ VaultCommand
    /\ db.open
    /\ \E transcript \in Transcripts, fuel \in 0..1 :
         \E r \in {IF db.poisoned THEN Result(Store, FALSE, 0, 0)
                   ELSE insert_session(Store, db, transcript, fuel)} :
           /\ SetStore(r.d)
           /\ ret' = Ret("insert_session",
                         IF r.ok THEN nextSession ELSE NoId,
                         transcript, r.ok, r.rows, {}, 0)
    /\ UNCHANGED <<salt, db, encryption_enabled>>

\* command list_sessions: ret.rows counts the sessions returned, ret.gen
\* holds their transcripts.  A decrypt that panics poisons the locks the
\* command holds: that of app_state.db and that of the connection.
ListSessions ==
    /\ VaultCommand
    /\ \E fuel \in 0..1 :
         \E r \in {IF db.open /\ ~db.poisoned
                   THEN list_sessions(Store, db, fuel)
                   ELSE [ok |-> FALSE, rows |-> <<>>]} :
           /\ ret' = Ret("list_sessions", NoId, NoLabel, r.ok, Len(r.rows),
                         {r.rows[i].transcript : i \in 1..Len(r.rows)}, 0)
           /\ db' = IF /\ db.open /\ ~db.poisoned /\ fuel > 0
                       /\ first_failure(newest_first(sessions), db) = "panic"
                    THEN [db EXCEPT !.poisoned = TRUE]
                    ELSE db
    /\ UNCHANGED <<salt, sessions, speakers, segments, embeddings, nextSession,
                   nextSpeaker, encryption_enabled>>

NextVault ==
    \/ EnableEncryption
    \/ UnlockDb
    \/ Restart
    \/ WriteSession
    \/ ListSessions

SpecVault == Init /\ [][NextVault]_vars

\* ------------------------------------------------- the open specification
\* Db::open called with every engine Crypto::new can build, on a backing file
\* that may be removed in between.
MaxOpenSteps == 3

\* the password and salt arguments of Crypto::new
Passwords == Passphrases \cup {NoPassword}
SaltArgs == GenSalts \cup InvalidSalts \cup {NoSalt}

OpenDb ==
    /\ steps < MaxOpenSteps
    /\ steps' = steps + 1
    /\ \E password \in Passwords, salt_in \in SaltArgs, gen \in GenSalts,
          fuel \in 0..4 :
         \E crypto \in {crypto_new(password, salt_in, gen)} :
           \E r \in {db_open(salt, crypto, fuel)} :
             /\ salt' = r.salt
             /\ db' = IF r.ok THEN handle(crypto) ELSE db
             /\ ret' = Ret("db_open", NoId, password, r.ok, 0, {}, 0)
             /\ call' = [op |-> "db_open", password |-> password,
                         salt |-> salt_in, crypto |-> crypto]
    /\ UNCHANGED <<sessions, speakers, segments, embeddings, nextSession,
                   nextSpeaker, encryption_enabled, callers,
                   recorder, embedder>>

\* std::fs::remove_file on the backing file, as enable_encryption does
RemoveFile ==
    /\ steps < MaxOpenSteps
    /\ steps' = steps + 1
    /\ SetStore(EmptyStore)
    /\ salt' = NoSalt
    /\ db' = NoDb
    /\ ret' = Ret("remove_file", NoId, NoLabel, TRUE, 0, {}, 0)
    /\ call' = [op |-> "remove_file"]
    /\ UNCHANGED <<encryption_enabled, callers, recorder, embedder>>

NextOpen ==
    \/ OpenDb
    \/ RemoveFile

SpecOpen == Init /\ [][NextOpen]_vars

\* ----------------------------------------------- the crypto specification
\* one encrypt on any engine and payload, then one decrypt of the pair on any
\* engine; both are pure, so one round per behaviour covers them
MaxPayload == 3
PayloadBytes == {0, 97, 255}
Payloads == UNION {[1..n -> PayloadBytes] : n \in 0..MaxPayload}
Nonces == {[i \in 1..NONCE_LEN |-> 0], [i \in 1..NONCE_LEN |-> 200]}
Engines == {crypto_new(p, a, g) : p \in Passwords, a \in SaltArgs, g \in GenSalts}

Encrypt ==
    /\ call = NoCall
    /\ \E crypto \in Engines, data \in Payloads, nonce \in Nonces :
         call' = [op |-> "encrypt", crypto |-> crypto, data |-> data,
                  pair |-> encrypt_wire(crypto, nonce, data)]
    /\ UNCHANGED <<salt, sessions, speakers, segments, embeddings, nextSession,
                   nextSpeaker, db, encryption_enabled, ret, steps, callers,
                   recorder, embedder>>

Decrypt ==
    /\ call.op = "encrypt"
    /\ \E crypto \in Engines :
         call' = [op |-> "decrypt", writer |-> call.crypto, crypto |-> crypto,
                  data |-> call.data, pair |-> call.pair,
                  out |-> decrypt_wire(crypto, call.pair.nonce_b64,
                                       call.pair.ct_b64)]
    /\ UNCHANGED <<salt, sessions, speakers, segments, embeddings, nextSession,
                   nextSpeaker, db, encryption_enabled, ret, steps, callers,
                   recorder, embedder>>

NextCrypto ==
    \/ Encrypt
    \/ Decrypt

SpecCrypto == Init /\ [][NextCrypto]_vars

\* ------------------------------------------------- the lock specification
\* The methods of Db called on the open handle, and the store reopened with
\* a keyed engine over the rows it holds (enable_encryption whose remove_file
\* failed).  A list_* method whose decrypt panics poisons the connection lock.
MaxLockSteps == 4

DbOperations ==
    {"insert_session", "update_session_transcript", "delete_session",
     "list_sessions", "insert_segment", "list_segments", "insert_speaker",
     "list_speakers", "rename_speaker", "delete_speaker", "insert_embedding",
     "list_embeddings", "load_salt"}

\* a call of a Db method through the handle
DbCall ==
    /\ db.open
    /\ steps < MaxLockSteps
    /\ steps' = steps + 1
    /\ UNCHANGED <<call, callers, recorder, embedder>>
    /\ UNCHANGED <<salt, encryption_enabled>>

\* the method returns r: its statements have run and the lock is as it was
DbReturn(op, arg, r) ==
    /\ SetStore(r.d)
    /\ db' = db
    /\ ret' = Ret(op, arg, r.err, r.ok, r.rows, {}, 0)

\* a list_* method ends: it returns r, or its decrypt loop has panicked
\* under the guard
DbListEnd(op, arg, r, outcome) ==
    /\ UNCHANGED <<sessions, speakers, segments, embeddings, nextSession,
                   nextSpeaker>>
    /\ db' = IF ~db.poisoned /\ outcome = "panic"
             THEN [db EXCEPT !.poisoned = TRUE] ELSE db
    /\ ret' = Ret(op, arg,
                  IF db.poisoned THEN r.err
                  ELSE IF outcome = "panic" THEN Panicked
                  ELSE r.err,
                  r.ok, r.rows, {}, 0)

DbInsertSession ==
    /\ DbCall
    /\ nextSession <= MaxSessions
    /\ \E transcript \in Transcripts, fuel \in 0..1 :
         DbReturn("insert_session", NoId,
                  conn_lock(db, Store,
                            insert_session(Store, db, transcript, fuel)))

DbUpdateSessionTranscript ==
    /\ DbCall
    /\ \E sid \in SessionIds, fuel \in 0..1 :
         DbReturn("update_session_transcript", sid,
                  conn_lock(db, Store,
                            update_session_transcript(Store, db, sid, "edited",
                                                      fuel)))

DbDeleteSession ==
    /\ DbCall
    /\ \E sid \in SessionIds, fuel \in {0, 3} :
         DbReturn("delete_session", sid,
                  conn_lock(db, Store, delete_session(Store, sid, fuel)))

DbListSessions ==
    /\ DbCall
    /\ \E fuel \in 0..1 :
         \E outcome \in {IF fuel = 0 THEN "err"
                         ELSE first_failure(newest_first(sessions), db)} :
           DbListEnd("list_sessions", NoId,
                     conn_lock(db, Store,
                               list_outcome(Store,
                                            list_sessions(Store, db, fuel),
                                            outcome)),
                     outcome)

DbInsertSegment ==
    /\ DbCall
    /\ Len(segments) < MaxSegs
    /\ \E sid \in SessionIds, c \in Clusters, fuel \in 0..1 :
         DbReturn("insert_segment", sid,
                  conn_lock(db, Store,
                            insert_segment(Store, db, sid, 0, DEFAULT_SPAN_MS,
                                           NoId, c, "seg", fuel)))

DbListSegments ==
    /\ DbCall
    /\ \E sid \in SessionIds, fuel \in 0..1 :
         \E outcome \in {IF fuel = 0 THEN "err"
                         ELSE first_failure(segment_cts(Store, sid), db)} :
           DbListEnd("list_segments", sid,
                     conn_lock(db, Store,
                               list_outcome(Store,
                                            list_segments(Store, db, sid, fuel),
                                            outcome)),
                     outcome)

DbInsertSpeaker ==
    /\ DbCall
    /\ nextSpeaker <= MaxSpeakers
    /\ \E label \in InsertLabels, fuel \in 0..1 :
         DbReturn("insert_speaker", NoId,
                  conn_lock(db, Store, insert_speaker(Store, label, fuel)))

DbListSpeakers ==
    /\ DbCall
    /\ \E fuel \in 0..1 :
         DbListEnd("list_speakers", NoId,
                   conn_lock(db, Store,
                             [d |-> Store, ok |-> fuel > 0,
                              rows |-> IF fuel > 0
                                       THEN Cardinality(list_speakers(Store))
                                       ELSE 0]),
                   "ok")

DbRenameSpeaker ==
    /\ DbCall
    /\ \E p \in SpeakerIds, label \in RenameLabels, fuel \in {0, 2} :
         DbReturn("rename_speaker", p,
                  conn_lock(db, Store, rename_speaker(Store, p, label, fuel)))

DbDeleteSpeaker ==
    /\ DbCall
    /\ \E p \in SpeakerIds, fuel \in {0, 3} :
         DbReturn("delete_speaker", p,
                  conn_lock(db, Store, delete_speaker(Store, p, fuel)))

DbInsertEmbedding ==
    /\ DbCall
    /\ Len(embeddings) < MaxEmbeddings
    /\ \E p \in SpeakerIds, sid \in SessionIds, fuel \in 0..1 :
         DbReturn("insert_embedding", p,
                  conn_lock(db, Store,
                            insert_embedding(Store, db, p, sid, <<4, 3>>, fuel)))

DbListEmbeddings ==
    /\ DbCall
    /\ \E fuel \in 0..1 :
         \E outcome \in {IF fuel = 0 THEN "err"
                         ELSE first_failure(
                                  [i \in 1..Len(embeddings) |-> embeddings[i].ct],
                                  db)} :
           DbListEnd("list_embeddings", NoId,
                     conn_lock(db, Store,
                               list_outcome(Store,
                                            IF outcome = "ok"
                                            THEN list_embeddings(Store, db)
                                            ELSE [ok |-> FALSE, rows |-> <<>>],
                                            outcome)),
                     outcome)

DbLoadSalt ==
    /\ DbCall
    /\ \E fuel \in 0..1 :
         DbListEnd("load_salt", NoId,
                   conn_lock(db, Store,
                             [d |-> Store, ok |-> load_salt(salt, fuel).ok,
                              rows |-> 0]),
                   "ok")

\* Db::open of the same file with a keyed engine: a new connection and lock
DbReopen ==
    /\ steps < MaxLockSteps
    /\ steps' = steps + 1
    /\ \E password \in Passphrases, gen \in GenSalts, fuel \in 0..4 :
         \E crypto \in {crypto_new(password, NoSalt, gen)} :
           \E r \in {db_open(salt, crypto, fuel)} :
             /\ salt' = r.salt
             /\ db' = IF r.ok THEN handle(crypto) ELSE db
             /\ ret' = Ret("db_open", NoId, password, r.ok, 0, {}, 0)
    /\ UNCHANGED <<sessions, speakers, segments, embeddings, nextSession,
                   nextSpeaker, encryption_enabled, call, callers,
                   recorder, embedder>>

NextLock ==
    \/ DbInsertSession
    \/ DbUpdateSessionTranscript
    \/ DbDeleteSession
    \/ DbListSessions
    \/ DbInsertSegment
    \/ DbListSegments
    \/ DbInsertSpeaker
    \/ DbListSpeakers
    \/ DbRenameSpeaker
    \/ DbDeleteSpeaker
    \/ DbInsertEmbedding
    \/ DbListEmbeddings
    \/ DbLoadSalt
    \/ DbReopen

SpecLock == Init /\ [][NextLock]_vars

\* ----------------------------------------------- the serial specification
\* Threads call methods of one Db, statement by statement; no statement
\* fails.  A method takes the guard of Db.conn before its first statement.
MaxSerialSteps == 4

SerialOperations ==
    {"insert_session", "insert_speaker", "insert_segment", "delete_session",
     "rename_speaker", "delete_speaker", "list_sessions", "list_segments"}

\* the number of conn.execute / query calls of a method
statements(op) ==
    IF op \in {"delete_session", "delete_speaker"} THEN 3
    ELSE IF op = "rename_speaker" THEN 2
    ELSE 1

\* a method that takes the guard anew for each of its statements, as in
\* self.conn.lock()?.execute(..)
guard_per_statement(op) == TRUE

\* whether the guard of a method is dropped before the method returns: the
\* methods of several statements bind it to `conn` for their whole body
guard_dropped_early(op) == FALSE

\* the arguments of a call: a session id and a speaker id, NoId where the
\* method takes none
SerialArgs(op) ==
    [sid : IF op \in {"insert_segment", "delete_session", "list_segments"}
           THEN SessionIds ELSE {NoId},
     p : IF op \in {"insert_segment", "rename_speaker", "delete_speaker"}
         THEN SpeakerIds ELSE {NoId}]

\* the tables after the first n statements of the method
run_statements(d, op, arg, n) ==
    IF op = "insert_session" THEN insert_session(d, db, "hello", n).d
    ELSE IF op = "insert_speaker" THEN insert_speaker(d, NoLabel, n).d
    ELSE IF op = "insert_segment"
         THEN insert_segment(d, db, arg.sid, 0, DEFAULT_SPAN_MS, arg.p,
                             joined_label(d, arg.p), "seg", n).d
    ELSE IF op = "delete_session" THEN delete_session(d, arg.sid, n).d
    ELSE IF op = "rename_speaker" THEN rename_speaker(d, arg.p, "Alice", n).d
    ELSE IF op = "delete_speaker" THEN delete_speaker(d, arg.p, n).d
    ELSE d

\* a thread calls a method and arrives at self.conn.lock()
CallerCalls(t) ==
    /\ callers.at[t] = NotCalling
    /\ steps < MaxSerialSteps
    /\ steps' = steps + 1
    /\ \E op \in SerialOperations :
       \E arg \in SerialArgs(op) :
         callers' = [callers EXCEPT
                       !.at[t] = [op |-> op, arg |-> arg, done |-> 0]]
    /\ UNCHANGED <<salt, sessions, speakers, segments, embeddings, nextSession,
                   nextSpeaker, db, encryption_enabled, ret, call,
                   recorder, embedder>>

\* lock() returns to a waiting thread once nobody holds the guard
CallerLocks(t) ==
    /\ callers.holder = 0
    /\ callers.at[t].op # "none"
    /\ callers.at[t].done = 0
    /\ callers' = [callers EXCEPT !.holder = t]
    /\ UNCHANGED <<salt, sessions, speakers, segments, embeddings, nextSession,
                   nextSpeaker, db, encryption_enabled, ret, steps, call,
                   recorder, embedder>>

\* The thread that holds the guard runs its next statement; after the last
\* one the method returns and the guard is dropped.  Each statement changes
\* only rows that the statements before it have not touched, so it is the
\* step from the first n to the first n + 1 statements.  A thread whose guard
\* was dropped early takes it again for the one statement.  Inserts into a
\* full table are not followed further.
CallerStatement(t) ==
    /\ \/ callers.holder = t
       \/ callers.holder = 0 /\ callers.at[t].done > 0
    /\ \E c \in {callers.at[t]} :
         /\ c.op = "insert_session" => nextSession <= MaxSessions
         /\ c.op = "insert_speaker" => nextSpeaker <= MaxSpeakers
         /\ c.op = "insert_segment" => Len(segments) < MaxSegs
         /\ SetStore(run_statements(Store, c.op, c.arg, c.done + 1))
         /\ IF c.done + 1 = statements(c.op)
            THEN /\ callers' = [callers EXCEPT !.holder = 0,
                                                !.at[t] = NotCalling]
                 /\ ret' = Ret(c.op, c.arg.sid, NoLabel, TRUE,
                               IF c.op = "list_sessions"
                               THEN Cardinality(sessions)
                               ELSE IF c.op = "list_segments"
                               THEN Len(segment_cts(Store, c.arg.sid))
                               ELSE 0, {}, 0)
            ELSE /\ callers' = [callers EXCEPT
                                  !.holder = IF guard_dropped_early(c.op)
                                             THEN 0 ELSE t,
                                  !.at[t].done = c.done + 1]
                 /\ ret' = ret
    /\ UNCHANGED <<salt, db, encryption_enabled, steps, call,
                   recorder, embedder>>

NextSerial ==
    \/ \E t \in Threads : CallerCalls(t)
    \/ \E t \in Threads : CallerLocks(t)
    \/ \E t \in Threads : CallerStatement(t)

SpecSerial == Init /\ [][NextSerial]_vars

\* ----------------------------------------------- the locked specification
\* The data commands issued while AppState.db is None, after the vault
\* commands and restarts that lead there.  With a store open the commands
\* are the actions of Spec and SpecVault.
DataCommands ==
    {"list_sessions", "list_segments", "update_transcript", "delete_session",
     "list_speakers", "rename_speaker", "delete_speaker", "transcribe_file"}

NotInitialized == "Database not initialized"
ModelMissing == "ONNX model missing"
EmbedderError == "ort error"

\* AppState::ensure_model_present: the model file afterwards, NoLabel or the
\* error; copy_ok tells whether std::fs::copy succeeds
ensure_model_present(model, copy_ok) ==
    IF model = "installed" THEN [model |-> model, err |-> NoLabel]
    ELSE IF model = "candidate"
         THEN IF copy_ok THEN [model |-> "installed", err |-> NoLabel]
              ELSE [model |-> model, err |-> "io error"]
    ELSE [model |-> model, err |-> ModelMissing]

\* AppState::load_embedder: new_ok tells whether Embedder::new succeeds
load_embedder(e, copy_ok, new_ok) ==
    LET m == ensure_model_present(e.model, copy_ok)
    IN  IF m.err # NoLabel THEN [e |-> [e EXCEPT !.model = m.model], err |-> m.err]
        ELSE IF ~new_ok
        THEN [e |-> [e EXCEPT !.model = m.model], err |-> EmbedderError]
        ELSE [e |-> [loaded |-> TRUE, model |-> m.model], err |-> NoLabel]

\* the head of transcribe_file (main.rs 289-300) on a store that is None:
\* the embedder is loaded first, then the handle is asked for
transcribe_file_locked(e, copy_ok, new_ok) ==
    LET l == IF e.loaded THEN [e |-> e, err |-> NoLabel]
             ELSE load_embedder(e, copy_ok, new_ok)
    IN  IF l.err # NoLabel THEN l
        ELSE [e |-> l.e, err |-> NotInitialized]

\* one command of the locked specification
LockedStep ==
    /\ steps < MaxVaultSteps
    /\ steps' = steps + 1
    /\ UNCHANGED <<call, callers, recorder>>

\* the ONNX model is put into ./models
ProvideModel ==
    /\ LockedStep
    /\ embedder.model = "missing"
    /\ embedder' = [embedder EXCEPT !.model = "candidate"]
    /\ ret' = Ret("provide_model", NoId, NoLabel, TRUE, 0, {}, 0)
    /\ UNCHANGED <<salt, sessions, speakers, segments, embeddings, nextSession,
                   nextSpeaker, db, encryption_enabled>>

\* a command that takes a handle from db_guard.as_ref().ok_or(..)? and finds
\* None
LockedCommand ==
    /\ LockedStep
    /\ ~db.open
    /\ \E cmd \in DataCommands \ {"transcribe_file"}, id \in SessionIds :
         ret' = Ret(cmd, id, NotInitialized, FALSE, 0, {}, 0)
    /\ embedder' = embedder
    /\ UNCHANGED <<salt, sessions, speakers, segments, embeddings, nextSession,
                   nextSpeaker, db, encryption_enabled>>

\* command transcribe_file that finds None
LockedTranscribeFile ==
    /\ LockedStep
    /\ ~db.open
    /\ \E copy_ok, new_ok \in BOOLEAN :
         \E r \in {transcribe_file_locked(embedder, copy_ok, new_ok)} :
           /\ embedder' = r.e
           /\ ret' = Ret("transcribe_file", NoId, r.err, FALSE, 0, {}, 0)
    /\ UNCHANGED <<salt, sessions, speakers, segments, embeddings, nextSession,
                   nextSpeaker, db, encryption_enabled>>

NextLocked ==
    \/ EnableEncryption
    \/ Restart
    \/ WriteSession
    \/ ProvideModel
    \/ LockedCommand
    \/ LockedTranscribeFile

SpecLocked == Init /\ [][NextLocked]_vars

\* ------------------------------------------------- the rows specification
\* Db::insert_embedding and Db::list_embeddings over a file whose embeddings
\* rows may also be damaged outside the program, read through handles with
\* and without a key.
MaxRowSteps == 4

\* vectors insert_embedding is given: &[f32] of any length
RowVectors == {<<>>, <<4, 3>>, <<0, 5>>}
\* byte lengths of a damaged payload
DamagedLens == {0, 3, 6, 8}

\* the Vec<u8> that Crypto::decrypt returns holds no allocation: the unkeyed
\* branch returns the base64-decoded column, which is empty for an empty
\* payload; the keyed branch returns the buffer that held the tag
unallocated(crypto, ct) == crypto.key = NoKey /\ ct.data.len = 0

\* how the loop of list_embeddings ends over these ciphertexts: "ok", or
\* what ends it first, an Err of decrypt or a panic.  bytemuck::cast_slice
\* panics when the bytes are not aligned for f32, and `aligned` tells whether
\* the pointer of a Vec without allocation is
RECURSIVE cast_scan(_, _, _)
cast_scan(cts, crypto, aligned) ==
    IF cts = <<>> THEN "ok"
    ELSE IF decrypt(crypto, Head(cts)).st # "ok"
         THEN decrypt(crypto, Head(cts)).st
    ELSE IF ~aligned /\ unallocated(crypto, Head(cts)) THEN "panic"
    ELSE cast_scan(Tail(cts), crypto, aligned)

\* Db::list_embeddings with the cast of each kept row
list_embeddings_cast(d, crypto, aligned) ==
    LET rows == d.embeddings
        st == cast_scan([i \in 1..Len(rows) |-> rows[i].ct], crypto, aligned)
    IN  [st |-> st,
         rows |-> IF st = "ok" THEN list_embeddings(d, crypto).rows ELSE <<>>]

RowStep ==
    /\ steps < MaxRowSteps
    /\ steps' = steps + 1
    /\ UNCHANGED <<salt, sessions, speakers, segments, nextSession, nextSpeaker,
                   encryption_enabled, callers, recorder, embedder>>

\* Db::insert_embedding through the handle
StoreEmbedding ==
    /\ RowStep
    /\ ~db.poisoned
    /\ Len(embeddings) < MaxEmbeddings
    /\ \E vector \in RowVectors :
         \E r \in {insert_embedding(Store, db, 1, 1, vector, 1)} :
           /\ embeddings' = r.d.embeddings
           /\ ret' = Ret("insert_embedding", 1, NoLabel, TRUE, 1, {}, 0)
    /\ UNCHANGED <<db, call>>

\* the file is damaged: the payload of a row is cut or overwritten
DamageRow ==
    /\ RowStep
    /\ \E i \in 1..Len(embeddings), n \in DamagedLens :
         /\ n # embeddings[i].ct.data.len
         /\ embeddings' = [embeddings EXCEPT ![i].ct.data =
                              [len |-> n,
                               floats |-> [k \in 1..(n \div 4) |->
                                             IF k <= Len(@.floats)
                                             THEN @.floats[k] ELSE 0]]]
    /\ ret' = Ret("damage", NoId, NoLabel, TRUE, 1, {}, 0)
    /\ UNCHANGED <<db, call>>

\* Db::open of the same file with another engine
RowReopen ==
    /\ RowStep
    /\ \E password \in {NoPassword, "pw1"} :
         /\ db' = handle(crypto_new(password, NoSalt, "saltA"))
         /\ password # db.key.pw
         /\ ret' = Ret("db_open", NoId, password, TRUE, 0, {}, 0)
    /\ UNCHANGED <<embeddings, call>>

\* Db::list_embeddings through the handle: call logs the table it read and
\* the vectors it returned
RowListEmbeddings ==
    /\ RowStep
    /\ ~db.poisoned
    /\ \E aligned \in BOOLEAN :
         \E r \in {list_embeddings_cast(Store, db, aligned)} :
           /\ call' = [op |-> "list_embeddings",
                       payloads |-> [i \in 1..Len(embeddings) |->
                                        embeddings[i].ct.data],
                       vectors |-> [i \in 1..Len(r.rows) |-> r.rows[i].vector]]
           /\ ret' = Ret("list_embeddings", NoId,
                         IF r.st = "panic" THEN Panicked
                         ELSE IF r.st = "err" THEN StoreError ELSE NoLabel,
                         r.st = "ok", Len(r.rows), {}, 0)
           /\ db' = IF r.st = "panic" THEN [db EXCEPT !.poisoned = TRUE] ELSE db
    /\ UNCHANGED embeddings

NextRows ==
    \/ StoreEmbedding
    \/ DamageRow
    \/ RowReopen
    \/ RowListEmbeddings

SpecRows == Init /\ [][NextRows]_vars

\* --------------------------------------------- the resolver specification
\* The functions of the resolver applied once to inputs of any shape: clips
\* that are empty, shorter than 1 ms, without a sample rate or longer than
\* the per-speaker target; segment lists that are absent, empty, inverted or
\* beyond the clip; stored vectors of equal score and of other lengths.
LongClip == [samples |-> <<1, 2, 3, 4, 5, 6, 7, 8, 9, 10, 11>>, sample_rate |-> 1]
EmptyClip == [samples |-> <<>>, sample_rate |-> 2]
NoRateClip == [samples |-> <<11, 12>>, sample_rate |-> 0]
ResolverClips == {TheClip, ShortClip, LongClip, EmptyClip, NoRateClip}
ResolverSpans ==
    {<<0, 0>>, <<1000, 0>>, <<3000, 4000>>, <<0, 1000>>, <<500, 1500>>,
     <<0, 11000>>}
\* Option<Vec<ApiSegment>>
NoSegments == [some |-> FALSE, segs |-> <<>>]
SomeSegments(segs) == [some |-> TRUE, segs |-> segs]
\* Option::unwrap_or_default
unwrap_or_default(opt) == IF opt.some THEN opt.segs ELSE <<>>
\* stored vectors: <<14, 2, 0>> scores like <<7, 1, 0>> against any query,
\* <<-7, -1, 0>> the opposite
StoredVectors == PassVectors \cup {<<14, 2, 0>>, <<-7, -1, 0>>}

CollectAudio ==
    /\ call = NoCall
    /\ \E audio \in ResolverClips, segs \in ApiSegmentLists(ResolverSpans) :
         /\ call' = [op |-> "collect_audio_by_speaker", audio |-> audio,
                     segments |-> segs,
                     buckets |-> collect_audio_by_speaker(audio, segs)]
         /\ ret' = Ret("collect_audio_by_speaker", NoId, NoLabel, TRUE, 0, {},
                       duration_ms(audio))
    /\ UNCHANGED <<salt, sessions, speakers, segments, embeddings, nextSession,
                   nextSpeaker, db, encryption_enabled, steps, callers,
                   recorder, embedder>>

NormalizeSegments ==
    /\ call = NoCall
    /\ \E audio \in ResolverClips, transcript \in Transcripts,
          opt \in {NoSegments}
                    \cup {SomeSegments(l) : l \in ApiSegmentLists(ResolverSpans)} :
         /\ call' = [op |-> "normalize_segments", audio |-> audio,
                     segments |-> opt, transcript |-> transcript,
                     out |-> normalize_segments(unwrap_or_default(opt),
                                                transcript, audio)]
         /\ ret' = Ret("normalize_segments", NoId, transcript, TRUE, 0, {},
                       duration_ms(audio))
    /\ UNCHANGED <<salt, sessions, speakers, segments, embeddings, nextSession,
                   nextSpeaker, db, encryption_enabled, steps, callers,
                   recorder, embedder>>

BestMatch ==
    /\ call = NoCall
    /\ \E embedding \in PassVectors,
          known \in UNION {[1..n -> [vector : StoredVectors]] : n \in 0..MaxEmbeddings} :
         /\ call' = [op |-> "best_match", embedding |-> embedding,
                     known |-> known, best |-> best_match(embedding, known)]
         /\ ret' = Ret("best_match", best_match(embedding, known), NoLabel,
                       best_match(embedding, known) # 0, 0, {}, 0)
    /\ UNCHANGED <<salt, sessions, speakers, segments, embeddings, nextSession,
                   nextSpeaker, db, encryption_enabled, steps, callers,
                   recorder, embedder>>

NextResolver ==
    \/ CollectAudio
    \/ NormalizeSegments
    \/ BestMatch

SpecResolver == Init /\ [][NextResolver]_vars

\* -------------------------------------------- the recording specification
\* RecordingManager::start and stop, the recorder thread start spawns, the
\* callback of the input stream and the writer thread.  A chunk is the
\* number of its send.
MaxChunks == 3
MaxRecordings == 2

\* writer.join().map_err(..)?? whose result is dropped whole
writer_joined_unchecked(wr) == "done"

\* writer.join().map_err(|_| "Writer join error")?? in the recorder thread:
\* where the thread ends for a writer that ended in wr
writer_joined(wr) == IF wr = "finalized" THEN "done" ELSE "failed"

\* start that never looks at the current recorder
recording_never_in_progress(current) == FALSE

\* guard.is_some() in RecordingManager::start
recording_in_progress(current) == current

RecordingStep ==
    UNCHANGED <<salt, sessions, speakers, segments, embeddings, nextSession,
                nextSpeaker, db, encryption_enabled, call, callers, embedder>>

\* RecordingManager::start: Err while a recording is current or when no
\* device or configuration is found; else the recorder thread is spawned,
\* which may end at once (unsupported format, no stream) or build and play
\* the stream and spawn the writer
StartRecording ==
    /\ RecordingStep
    /\ ~recorder.stopping
    /\ steps < MaxRecordings
    /\ steps' = steps + 1
    /\ \E device, built \in BOOLEAN :
         IF recording_in_progress(recorder.current)
         THEN /\ recorder' = recorder
              /\ ret' = Ret("start", NoId, "Recording already in progress",
                            FALSE, 0, {}, 0)
         ELSE IF ~device
         THEN /\ recorder' = recorder
              /\ ret' = Ret("start", NoId, "No input device found",
                            FALSE, 0, {}, 0)
         ELSE /\ recorder' = [NoRecorder EXCEPT
                                !.current = TRUE,
                                !.rec = IF built THEN "waiting" ELSE "failed",
                                !.wr = IF built THEN "create" ELSE "none",
                                !.stream = built,
                                !.data_tx = built]
              /\ ret' = Ret("start", NoId, NoLabel, TRUE, 0, {}, 0)

\* the callback of the input stream: a chunk is sent unless the flag is set;
\* a send to a receiver that is gone is an error, which is dropped
Callback ==
    /\ RecordingStep
    /\ recorder.stream
    /\ recorder.sent < MaxChunks
    /\ recorder' =
         IF recorder.stop_flag THEN [recorder EXCEPT !.sent = @ + 1]
         ELSE IF recorder.wr \in {"finalized", "failed"}
         THEN [recorder EXCEPT !.sent = @ + 1]
         ELSE [recorder EXCEPT !.sent = @ + 1,
                               !.chan = Append(@, recorder.sent + 1)]
    /\ UNCHANGED <<ret, steps>>

\* writer thread: hound::WavWriter::create
WriterCreate ==
    /\ RecordingStep
    /\ recorder.wr = "create"
    /\ \E ok \in BOOLEAN :
         recorder' = [recorder EXCEPT !.wr = IF ok THEN "loop" ELSE "failed",
                                      !.chan = IF ok THEN @ ELSE <<>>]
    /\ UNCHANGED <<ret, steps>>

\* writer thread: one turn of `for chunk in data_rx.iter()`: the chunk is
\* received, then the flag is read and ends the loop, or the chunk is written
WriterReceive ==
    /\ RecordingStep
    /\ recorder.wr = "loop"
    /\ recorder.chan # <<>>
    /\ \E ok \in BOOLEAN :
         recorder' =
           IF recorder.stop_flag
           THEN [recorder EXCEPT !.chan = Tail(@), !.wr = "finalize"]
           ELSE IF ok
           THEN [recorder EXCEPT !.chan = Tail(@),
                                 !.file = Append(@, Head(recorder.chan))]
           ELSE [recorder EXCEPT !.chan = <<>>, !.wr = "failed"]
    /\ UNCHANGED <<ret, steps>>

\* writer thread: data_rx.iter() ends when the queue is empty and every
\* sender is gone
WriterDisconnected ==
    /\ RecordingStep
    /\ recorder.wr = "loop"
    /\ recorder.chan = <<>>
    /\ ~recorder.stream
    /\ ~recorder.data_tx
    /\ recorder' = [recorder EXCEPT !.wr = "finalize"]
    /\ UNCHANGED <<ret, steps>>

\* writer thread: writer.finalize(); the receiver is dropped with the thread
WriterFinalize ==
    /\ RecordingStep
    /\ recorder.wr = "finalize"
    /\ \E ok \in BOOLEAN :
         recorder' = [recorder EXCEPT !.wr = IF ok THEN "finalized" ELSE "failed",
                                      !.finalized = ok,
                                      !.chan = <<>>]
    /\ UNCHANGED <<ret, steps>>

\* RecordingManager::stop up to handle.join(): Err when nothing is current;
\* else current is taken and the stop signal sent
StopRecording ==
    /\ RecordingStep
    /\ ~recorder.stopping
    /\ IF ~recorder.current
       THEN /\ recorder' = recorder
            /\ ret' = Ret("stop", NoId, "No active recording", FALSE, 0, {}, 0)
       ELSE /\ recorder' = [recorder EXCEPT !.current = FALSE,
                                            !.stopping = TRUE,
                                            !.stop_sent = TRUE,
                                            !.queued_at_stop = recorder.chan]
            /\ ret' = ret
    /\ UNCHANGED steps

\* recorder thread: stop_rx.recv() returns and the flag is stored
RecorderSetsFlag ==
    /\ RecordingStep
    /\ recorder.rec = "waiting"
    /\ recorder.stop_sent
    /\ recorder' = [recorder EXCEPT !.rec = "flagged", !.stop_flag = TRUE]
    /\ UNCHANGED <<ret, steps>>

\* recorder thread: drop(stream), then the sleep of 50 ms
RecorderDropsStream ==
    /\ RecordingStep
    /\ recorder.rec = "flagged"
    /\ recorder' = [recorder EXCEPT !.rec = "sleeping", !.stream = FALSE]
    /\ UNCHANGED <<ret, steps>>

\* recorder thread: drop(data_tx)
RecorderDropsSender ==
    /\ RecordingStep
    /\ recorder.rec = "sleeping"
    /\ recorder' = [recorder EXCEPT !.rec = "joining", !.data_tx = FALSE]
    /\ UNCHANGED <<ret, steps>>

\* recorder thread: writer.join() returns once the writer thread has ended
RecorderJoinsWriter ==
    /\ RecordingStep
    /\ recorder.rec = "joining"
    /\ recorder.wr \in {"finalized", "failed"}
    /\ recorder' = [recorder EXCEPT !.rec = writer_joined(recorder.wr)]
    /\ UNCHANGED <<ret, steps>>

\* RecordingManager::stop: handle.join() returns once the recorder thread
\* has ended, and `??` makes its Err the Err of stop
StopReturns ==
    /\ RecordingStep
    /\ recorder.stopping
    /\ recorder.rec \in {"done", "failed"}
    /\ recorder' = [recorder EXCEPT !.stopping = FALSE]
    /\ ret' = Ret("stop", NoId, NoLabel, recorder.rec = "done",
                  Len(recorder.file), {}, 0)
    /\ UNCHANGED steps

NextRecording ==
    \/ StartRecording
    \/ Callback
    \/ WriterCreate
    \/ WriterReceive
    \/ WriterDisconnected
    \/ WriterFinalize
    \/ StopRecording
    \/ RecorderSetsFlag
    \/ RecorderDropsStream
    \/ RecorderDropsSender
    \/ RecorderJoinsWriter
    \/ StopReturns

SpecRecording == Init /\ [][NextRecording]_vars

\* ------------------------------------------------ the cascade specification
\* Transcriptions that fill the store, then one call of delete_session,
\* rename_speaker or delete_speaker in which any number of statements
\* succeed, recorded in `call`.
CascadeFill ==
    /\ call = NoCall
    /\ TranscribeFile(Spans, {TheClip})

CascadeDeleteSession ==
    /\ OpenStep
    /\ call = NoCall
    /\ \E sid \in SessionIds, fuel \in 0..3 :
         \E r \in {delete_session(Store, sid, fuel)} :
             /\ SetStore(r.d)
             /\ ret' = Ret("delete_session", sid, NoLabel, r.ok, r.rows, {}, 0)
             /\ call' = [op |-> "delete_session", id |-> sid, fuel |-> fuel]

CascadeRenameSpeaker ==
    /\ OpenStep
    /\ call = NoCall
    /\ \E p \in SpeakerIds, label \in RenameLabels, fuel \in 0..2 :
         \E r \in {rename_speaker(Store, p, label, fuel)} :
             /\ SetStore(r.d)
             /\ ret' = Ret("rename_speaker", p, label, r.ok, r.rows, {}, 0)
             /\ call' = [op |-> "rename_speaker", id |-> p, fuel |-> fuel]

CascadeDeleteSpeaker ==
    /\ OpenStep
    /\ call = NoCall
    /\ \E p \in SpeakerIds, fuel \in 0..3 :
         \E r \in {delete_speaker(Store, p, fuel)} :
             /\ SetStore(r.d)
             /\ ret' = Ret("delete_speaker", p, NoLabel, r.ok, r.rows, {}, 0)
             /\ call' = [op |-> "delete_speaker", id |-> p, fuel |-> fuel]

NextCascade ==
    \/ CascadeFill
    \/ CascadeDeleteSession
    \/ CascadeRenameSpeaker
    \/ CascadeDeleteSpeaker

SpecCascade == Init /\ [][NextCascade]_vars

\* ------------------------------------------------- the passes specification
\* transcribe_file called from two threads.  callers.app is the thread that
\* holds the guard of AppState.db; at[t].done counts the stages a call has
\* passed: 1 the guard taken, 2 the session inserted, 3 the listings of
\* process_segments read.  Each pass has one segment of one cluster.
MaxPassCalls == 3

PassSegment == [speaker |-> "spk_a", start_ms |-> 0, end_ms |-> DEFAULT_SPAN_MS, text |-> "seg"]

\* db_guard dropped once insert_session has returned
db_guard_until_insert(t) == 0

\* the holder of the guard of AppState.db after the insert_session of thread
\* t: db_guard lives to the end of transcribe_file
db_guard_after_insert(t) == t

PassesStep ==
    UNCHANGED <<salt, db, encryption_enabled, call, recorder, embedder>>

\* a thread enters transcribe_file; vec is what the embedder will return
PassCalled(t) ==
    /\ PassesStep
    /\ callers.at[t].op = "none"
    /\ steps < MaxPassCalls
    /\ steps' = steps + 1
    /\ \E vec \in Vectors :
         callers' = [callers EXCEPT
                       !.at[t] = [op |-> "transcribe_file",
                                  arg |-> [vec |-> vec, sid |-> NoId,
                                           known |-> <<>>, next |-> 0],
                                  done |-> 0]]
    /\ UNCHANGED <<sessions, speakers, segments, embeddings, nextSession,
                   nextSpeaker, ret>>

\* app_state.db.lock() returns once nobody holds the guard
PassLocks(t) ==
    /\ PassesStep
    /\ callers.at[t].op = "transcribe_file"
    /\ callers.at[t].done = 0
    /\ callers.app = 0
    /\ callers' = [callers EXCEPT !.app = t, !.at[t].done = 1]
    /\ UNCHANGED <<sessions, speakers, segments, embeddings, nextSession,
                   nextSpeaker, ret, steps>>

\* the provider is called and insert_session runs; an error of either ends
\* the call
PassInsertsSession(t) ==
    /\ PassesStep
    /\ callers.at[t].op = "transcribe_file"
    /\ callers.at[t].done = 1
    /\ nextSession <= MaxSessions
    /\ \E fuel \in 0..1 :
         \E r \in {insert_session(Store, db, "hello", fuel)} :
           /\ SetStore(r.d)
           /\ IF r.ok
              THEN /\ callers' = [callers EXCEPT
                                    !.app = db_guard_after_insert(t),
                                    !.at[t].done = 2,
                                    !.at[t].arg.sid = nextSession]
                   /\ ret' = ret
              ELSE /\ callers' = [callers EXCEPT !.app = 0,
                                                 !.at[t] = NotCalling]
                   /\ ret' = Ret("transcribe_file", NoId, NoLabel, FALSE, 0, {}, 0)
    /\ UNCHANGED steps

\* process_segments reads list_embeddings and list_speakers and seeds
\* next_label_index
PassSnapshots(t) ==
    /\ PassesStep
    /\ callers.at[t].op = "transcribe_file"
    /\ callers.at[t].done = 2
    /\ callers' = [callers EXCEPT
                     !.at[t].done = 3,
                     !.at[t].arg.known = list_embeddings(Store, db).rows,
                     !.at[t].arg.next = Cardinality(list_speakers(Store)) + 1]
    /\ UNCHANGED <<sessions, speakers, segments, embeddings, nextSession,
                   nextSpeaker, ret, steps>>

\* the two loops of process_segments run and transcribe_file returns
PassResolves(t) ==
    /\ PassesStep
    /\ callers.at[t].op = "transcribe_file"
    /\ callers.at[t].done = 3
    /\ \E fuel \in {0, 4, 5} :
         LET c == callers.at[t].arg
             buckets == collect_audio_by_speaker(TheClip, <<PassSegment>>)
             vecs == [k \in DOMAIN buckets |-> c.vec]
         IN  \E r \in {persist_segments(
                           resolve_clusters(
                               PassState(Store, c.known, c.next, EmptyMap, fuel,
                                         TRUE, {}),
                               <<PassSegment.speaker>>, buckets, vecs, c.sid, db),
                           <<PassSegment>>, 1, c.sid, db)} :
               /\ r.d.nextSpeaker <= MaxSpeakers + 1
               /\ Len(r.d.embeddings) <= MaxEmbeddings
               /\ SetStore(r.d)
               /\ ret' = Ret("transcribe_file", c.sid, NoLabel, r.ok, 0, r.gen, 0)
    /\ callers' = [callers EXCEPT
                     !.app = IF @ = t THEN 0 ELSE @,
                     !.at[t] = NotCalling]
    /\ UNCHANGED steps

NextPasses ==
    \/ \E t \in Threads : PassCalled(t)
    \/ \E t \in Threads : PassLocks(t)
    \/ \E t \in Threads : PassInsertsSession(t)
    \/ \E t \in Threads : PassSnapshots(t)
    \/ \E t \in Threads : PassResolves(t)

SpecPasses == Init /\ [][NextPasses]_vars

\* ================================================================== claims
SpeakerExists(p) == \E s \in speakers : s.id = p

\* ---- C1 -----------------------------------------------------------------
\* C1: in every state the store can be in, a segment whose speaker_id is not
\* null references a speaker row that exists.
C1_SegmentsReferenceSpeakers ==
    \A i \in 1..Len(segments) :
        segments[i].speaker_id # NoId => SpeakerExists(segments[i].speaker_id)

C3_DeleteSessionCascade ==
    [][(ret'.op = "delete_session" /\ ret'.ok) =>
        /\ sessions' = {x \in sessions : x.id # ret'.arg}
        /\ segments' = SelectSeq(segments, LAMBDA g : g.session_id # ret'.arg)
        /\ embeddings' = SelectSeq(embeddings,
                                   LAMBDA e : e.source_session_id # ret'.arg)
        /\ \A x \in sessions' : x.id # ret'.arg
        /\ \A i \in 1..Len(segments') : segments'[i].session_id # ret'.arg
        /\ \A i \in 1..Len(embeddings') :
              embeddings'[i].source_session_id # ret'.arg]_vars

\* a delete_session has just removed a session row, a segment and an
\* embedding while another session keeps its row, segments and embeddings
C3_Witness ==
    /\ ret.op = "delete_session"
    /\ ret.ok
    /\ ret.rows >= 3
    /\ sessions # {}
    /\ Len(segments) > 0
    /\ Len(embeddings) > 0

\* ---- C4 -----------------------------------------------------------------
\* C4: a delete_speaker(p) that returns Ok leaves no embedding owned by p
\* and no speaker row p, clears speaker_id and speaker_label of every
\* segment that referenced p, deletes no segment and leaves the segments
\* that referenced other speakers as they were.
C4_DeleteSpeakerCascade ==
    [][(ret'.op = "delete_speaker" /\ ret'.ok) =>
        /\ \A i \in 1..Len(embeddings') : embeddings'[i].speaker_id # ret'.arg
        /\ \A s \in speakers' : s.id # ret'.arg
        /\ Len(segments') = Len(segments)
        /\ \A i \in 1..Len(segments) :
              segments'[i] =
                 IF segments[i].speaker_id = ret'.arg
                 THEN [segments[i] EXCEPT !.speaker_id = NoId,
                                          !.speaker_label = NoLabel]
                 ELSE segments[i]]_vars

\* a delete_speaker has just removed a speaker, an embedding of it and
\* cleared a segment, while a segment of another speaker is stored
C4_Witness ==
    /\ ret.op = "delete_speaker"
    /\ ret.ok
    /\ ret.rows >= 3
    /\ \E i \in 1..Len(segments) :
          segments[i].speaker_id = NoId /\ segments[i].speaker_label = NoLabel
    /\ \E i \in 1..Len(segments) : segments[i].speaker_id # NoId

\* ---- C5 -----------------------------------------------------------------
\* C5: a rename_speaker(p, l) that returns Ok leaves speaker p with label l
\* and every segment that references p with speaker_label l, and leaves the
\* other speakers and the segments of other speakers as they were.
C5_RenameSpeakerCascade ==
    [][(ret'.op = "rename_speaker" /\ ret'.ok) =>
        /\ speakers' = {IF s.id = ret'.arg THEN [s EXCEPT !.label = ret'.text]
                                           ELSE s : s \in speakers}
        /\ \A s \in speakers' : s.id = ret'.arg => s.label = ret'.text
        /\ Len(segments') = Len(segments)
        /\ \A i \in 1..Len(segments) :
              segments'[i] =
                 IF segments[i].speaker_id = ret'.arg
                 THEN [segments[i] EXCEPT !.speaker_label = ret'.text]
                 ELSE segments[i]]_vars

\* a rename_speaker has just relabelled a speaker and a segment of it while
\* a segment of another speaker keeps another label
C5_Witness ==
    /\ ret.op = "rename_speaker"
    /\ ret.ok
    /\ ret.rows >= 2
    /\ SpeakerExists(ret.arg)
    /\ \E i \in 1..Len(segments) :
          /\ segments[i].speaker_id = ret.arg
          /\ segments[i].speaker_label = ret.text
    /\ \E i \in 1..Len(segments) :
          /\ segments[i].speaker_id \notin {NoId, ret.arg}
          /\ segments[i].speaker_label # ret.text

\* ---- C6 -----------------------------------------------------------------
\* every segment with a speaker carries the current label of that speaker
LabelsInSync(segs, spks) ==
    \A i \in 1..Len(segs) :
        segs[i].speaker_id # NoId =>
            \E s \in spks : s.id = segs[i].speaker_id
                            /\ s.label = segs[i].speaker_label

\* C6: a resolution pass that returns Ok on a store whose segment labels
\* agree with the speakers' labels leaves them in agreement, also when two
\* clusters of the pass match the same previously unlabeled speaker.
C6_PassKeepsLabelsInSync ==
    [][(ret'.op = "transcribe_file" /\ ret'.ok /\ LabelsInSync(segments, speakers))
        => LabelsInSync(segments', speakers')]_vars

\* ---- C7 -----------------------------------------------------------------
\* C7: the "Speaker N" labels a resolution pass that returns Ok has generated
\* differ from the label of every speaker stored when the pass started.
C7_GeneratedLabelsFresh ==
    [][(ret'.op = "transcribe_file" /\ ret'.ok) =>
        ret'.gen \cap {s.label : s \in speakers} = {}]_vars

\* ---- C8 -----------------------------------------------------------------
\* C8: after a transcription, every stored segment has
\* start_ms <= end_ms <= the duration of the clip that was transcribed.
C8_SegmentSpansClamped ==
    ret.op = "transcribe_file" =>
        \A i \in 1..Len(segments) :
            /\ segments[i].start_ms <= segments[i].end_ms
            /\ segments[i].end_ms <= ret.ms

\* ---- C9 -----------------------------------------------------------------
\* the passphrase sessions row x was encrypted under differs from pw
WrittenUnderOther(x, pw) == x.ct.key # NoKey /\ x.ct.key.pw # pw

\* C9: an unlock_db with a passphrase different from the one the stored rows
\* were encrypted under returns an error.
C9_WrongPassphraseRejected ==
    (ret.op = "unlock_db" /\ \E x \in sessions : WrittenUnderOther(x, ret.text))
        => ~ret.ok

\* ---- C10 ----------------------------------------------------------------
\* the sessions rows an engine keyed from passphrase pw wrote
WrittenUnder(pw) == {x \in sessions : x.ct.key # NoKey /\ x.ct.key.pw = pw}

\* C10: after an unlock_db that returns Ok and whose engine carries the
\* persisted salt, every sessions row a keyed store wrote under the same
\* passphrase decrypts to the transcript that was written, and when the
\* table holds only such rows list_sessions returns each of them with that
\* transcript.
C10_SamePassphraseReopens ==
    (ret.op = "unlock_db" /\ ret.ok /\ db.salt = salt) =>
        /\ \A x \in WrittenUnder(ret.text) :
              /\ decrypt(db, x.ct).st = "ok"
              /\ decrypt(db, x.ct).clear
        /\ sessions = WrittenUnder(ret.text) =>
              LET listed == list_sessions(Store, db, 1)
              IN  /\ listed.ok
                  /\ {[id |-> listed.rows[i].id,
                       transcript |-> listed.rows[i].transcript] :
                          i \in 1..Len(listed.rows)}
                     = {[id |-> x.id, transcript |-> x.ct.data] : x \in sessions}

\* ---- C11 ----------------------------------------------------------------
\* C11: a Db::open on a backing file that holds a salt row, with whatever
\* engine, leaves the value of that row as it was.
C11_SaltWrittenOnce ==
    [][(call'.op = "db_open" /\ salt # NoSalt) => salt' = salt]_vars

\* a Db::open has just succeeded with an engine whose salt differs from the
\* stored one, and the stored one is still there
C11_Witness ==
    /\ call.op = "db_open"
    /\ ret.ok
    /\ salt # NoSalt
    /\ call.crypto.salt # NoSalt
    /\ call.crypto.salt # salt

\* ---- C12 ----------------------------------------------------------------
\* C12: an engine built without a passphrase has salt() = None whatever salt
\* it was given, and a Db::open with it writes no salt row.
C12_UnkeyedEngineHasNoSalt ==
    [][(call'.op = "db_open" /\ call'.password = NoPassword) =>
        /\ call'.crypto.salt = NoSalt
        /\ salt' = salt]_vars

\* ---- C13 ----------------------------------------------------------------
\* C13: decrypt, on the engine that encrypted, of the pair encrypt returned
\* for payload b returns Ok(b), for keyed and unkeyed engines.
C13_RoundTrip ==
    (call.op = "decrypt" /\ call.crypto = call.writer) =>
        /\ call.out.st = "ok"
        /\ call.out.data = call.data

\* a keyed engine has just decrypted its own pair for a payload whose
\* ciphertext needs base64 padding
C13_Witness ==
    /\ call.op = "decrypt"
    /\ call.crypto = call.writer
    /\ call.crypto.key # NoKey
    /\ Len(call.data) = 2
    /\ call.out.st = "ok"

\* ---- C14 ----------------------------------------------------------------
\* C14: decrypt of a pair sealed under key A on an engine holding another
\* key B returns an error, never bytes.
C14_WrongKeyRejected ==
    (/\ call.op = "decrypt"
     /\ call.writer.key # NoKey
     /\ call.crypto.key # NoKey
     /\ call.crypto.key # call.writer.key) => call.out.st = "err"

\* an engine keyed from another passphrase and the same salt has just been
\* handed a sealed, non-empty payload
C14_Witness ==
    /\ call.op = "decrypt"
    /\ call.writer.key # NoKey
    /\ call.crypto.key # NoKey
    /\ call.crypto.key.pw # call.writer.key.pw
    /\ call.crypto.key.salt = call.writer.key.salt
    /\ Len(call.data) > 0
    /\ call.out.st = "err"

\* ---- C15 ----------------------------------------------------------------
\* the segment list process_segments was given by the pass recorded in c,
\* and the audio it collected per cluster
InputSegments(c) == normalize_segments(c.api, c.transcript, c.audio)
Buckets(c) == collect_audio_by_speaker(c.audio, InputSegments(c))

\* C15: a pass that returns Ok on a store without speakers, embeddings and
\* segments, whose segments all belong to one cluster with audio, leaves one
\* speaker labelled "Speaker 1", one embedding owned by it and sourced from
\* the session, and one segment row per input segment, each with that
\* speaker's id and the label "Speaker 1".
C15_FirstSpeakerEnrolled ==
    [][(/\ call'.op = "transcribe_file" /\ ret'.ok
        /\ speakers = {} /\ embeddings = <<>> /\ segments = <<>>
        /\ Cardinality(DOMAIN Buckets(call')) = 1
        /\ \A i \in 1..Len(InputSegments(call')) :
               InputSegments(call')[i].speaker \in DOMAIN Buckets(call'))
       => /\ Cardinality(speakers') = 1
          /\ Len(embeddings') = 1
          /\ Len(segments') = Len(InputSegments(call'))
          /\ \A s \in speakers' :
               /\ s.label = "Speaker 1"
               /\ embeddings'[1].speaker_id = s.id
               /\ embeddings'[1].source_session_id = ret'.arg
               /\ \A i \in 1..Len(segments') :
                      /\ segments'[i].session_id = ret'.arg
                      /\ segments'[i].speaker_id = s.id
                      /\ segments'[i].speaker_label = "Speaker 1"]_vars

\* the first transcription of the store returned Ok for two segments of one
\* cluster
C15_Witness ==
    /\ call.op = "transcribe_file" /\ ret.ok /\ ret.arg = 1
    /\ Cardinality(DOMAIN Buckets(call)) = 1
    /\ Len(InputSegments(call)) = 2
    /\ \A i \in 1..2 : InputSegments(call)[i].speaker \in DOMAIN Buckets(call)
    /\ Cardinality(speakers) = 1
    /\ Len(segments) = 2

\* ---- C16 ----------------------------------------------------------------
\* the cosine of v and x is at least 0.78
Similar(v, x) ==
    /\ dot(v, x) > 0
    /\ dot(v, x) * dot(v, x) * THRESHOLD_DEN * THRESHOLD_DEN
         >= THRESHOLD_NUM * THRESHOLD_NUM * dot(v, v) * dot(x, x)

\* the cosine of v and x, which is positive, is at least that of v and y
ScoreAtLeast(v, x, y) ==
    \/ dot(v, y) <= 0
    \/ dot(v, y) * dot(v, y) * dot(x, x) <= dot(v, x) * dot(v, x) * dot(y, y)

\* the stored embeddings of the length of v that score at least 0.78
Hits(known, v) ==
    {i \in 1..Len(known) :
        Len(known[i].vector) = Len(v) /\ Similar(v, known[i].vector)}

\* C16: when the embedding of the first cluster of a pass that returns Ok
\* scores at least 0.78 against a stored embedding of its length, the cluster
\* resolves to the speaker of a best-scoring such embedding and the pass adds
\* an embedding for that speaker; a pass of that one cluster adds no speaker.
C16_MatchReusesSpeaker ==
    [][(call'.op = "transcribe_file" /\ ret'.ok /\ call'.order # <<>>) =>
        LET k == call'.order[1]
            v == call'.vecs[k]
            known == list_embeddings(Store, db).rows
            added == embeddings'[Len(embeddings) + 1]
        IN  Hits(known, v) # {} =>
              /\ \E i \in Hits(known, v) :
                   /\ \A j \in 1..Len(known) :
                        Len(known[j].vector) = Len(v) =>
                            ScoreAtLeast(v, known[i].vector, known[j].vector)
                   /\ call'.profile[k][1] = known[i].speaker_id
              /\ added.speaker_id = call'.profile[k][1]
              /\ added.source_session_id = ret'.arg
              /\ added.ct = encrypt(db, cast_to_bytes(v))
              /\ Cardinality(DOMAIN Buckets(call')) = 1 =>
                   /\ Cardinality(speakers') = Cardinality(speakers)
                   /\ nextSpeaker' = nextSpeaker
                   /\ Len(embeddings') = Len(embeddings) + 1]_vars

\* a pass of one cluster returned Ok on a store of two speakers and gave its
\* embedding to the second of them, who had one from an earlier session
C16_Witness ==
    /\ call.op = "transcribe_file" /\ ret.ok
    /\ Cardinality(DOMAIN Buckets(call)) = 1
    /\ Cardinality(speakers) = 2
    /\ Len(embeddings) = 3
    /\ embeddings[1].speaker_id # embeddings[2].speaker_id
    /\ embeddings[2].source_session_id # ret.arg
    /\ embeddings[3].source_session_id = ret.arg
    /\ embeddings[3].speaker_id = embeddings[2].speaker_id

\* ---- C17 ----------------------------------------------------------------
\* C17: the first cluster of a pass that returns Ok resolves to the speaker
\* of a stored embedding exactly when a stored embedding of its length scores
\* at least 0.78, a score of exactly 0.78 included; when none does, also when
\* none has its length, the cluster gets a newly inserted speaker.
C17_MatchAtThreshold ==
    [][(call'.op = "transcribe_file" /\ ret'.ok /\ call'.order # <<>>) =>
        LET k == call'.order[1]
            v == call'.vecs[k]
            known == list_embeddings(Store, db).rows
            resolved == call'.profile[k][1]
        IN  /\ Hits(known, v) # {} =>
                 resolved \in {known[i].speaker_id : i \in Hits(known, v)}
            /\ Hits(known, v) = {} =>
                 /\ resolved = nextSpeaker
                 /\ nextSpeaker' > nextSpeaker
                 /\ \A s \in speakers : s.id # resolved
                 /\ \E s \in speakers' : s.id = resolved]_vars

\* a pass whose only cluster scored exactly 0.78 against the only stored
\* embedding returned Ok and gave its embedding to that embedding's speaker
C17_Witness ==
    /\ call.op = "transcribe_file" /\ ret.ok
    /\ Cardinality(DOMAIN Buckets(call)) = 1
    /\ call.vecs[call.order[1]] = <<5, 4, 3>>
    /\ Len(embeddings) = 2
    /\ embeddings[1].ct = encrypt(db, cast_to_bytes(<<7, 1, 0>>))
    /\ embeddings[2].source_session_id = ret.arg
    /\ embeddings[2].speaker_id = embeddings[1].speaker_id
    /\ Cardinality(speakers) = 1

\* ---- C18 ----------------------------------------------------------------
\* C18: a transcription in which fewer fallible calls succeed than its
\* session, listings, clusters and segments need returns an error.  When it
\* returns an error after insert_session succeeded, the session row is
\* there, every speaker and embedding stored before is there, every cluster
\* resolved before the failure has its speaker and its embedding sourced
\* from the session, and unless every cluster was resolved no segment row
\* belongs to the session.
C18_FailedPassKeepsRows ==
    [][(call'.op = "transcribe_file") =>
        LET sid == nextSession
            done == call'.profile
        IN  /\ call'.fuel < 3 + 2 * Cardinality(DOMAIN Buckets(call'))
                              + Len(InputSegments(call')) => ~ret'.ok
            /\ (call'.fuel >= 1 /\ ~ret'.ok) =>
                 /\ \E x \in sessions' : x.id = sid
                 /\ \A s \in speakers : \E t \in speakers' : t.id = s.id
                 /\ Len(embeddings') >= Len(embeddings)
                 /\ \A i \in 1..Len(embeddings) : embeddings'[i] = embeddings[i]
                 /\ \A k \in DOMAIN done :
                      /\ \E t \in speakers' : t.id = done[k][1]
                      /\ \E i \in (Len(embeddings) + 1)..Len(embeddings') :
                           /\ embeddings'[i].speaker_id = done[k][1]
                           /\ embeddings'[i].source_session_id = sid
                 /\ DOMAIN done # DOMAIN Buckets(call') =>
                      \A i \in 1..Len(segments') :
                          segments'[i].session_id # sid]_vars

\* a pass of two clusters returned an error after it had resolved one of
\* them to a new speaker
C18_Witness ==
    /\ call.op = "transcribe_file" /\ ~ret.ok /\ ret.arg # NoId
    /\ Cardinality(DOMAIN Buckets(call)) = 2
    /\ Cardinality(DOMAIN call.profile) = 1
    /\ \E x \in sessions : x.id = ret.arg
    /\ \E k \in DOMAIN call.profile :
         /\ call.profile[k][2] \in ret.gen
         /\ \E t \in speakers : t.id = call.profile[k][1]
         /\ \E i \in 1..Len(embeddings) :
              /\ embeddings[i].speaker_id = call.profile[k][1]
              /\ embeddings[i].source_session_id = ret.arg
    /\ \A i \in 1..Len(segments) : segments[i].session_id # ret.arg

\* ---- C19 ----------------------------------------------------------------
\* C19: a pass that returns Ok appends one segment row per input segment, in
\* order, for its session; the row of a segment whose cluster has no audio
\* has no speaker id and the cluster's raw label, the row of a segment of a
\* resolved cluster has the speaker id and label the cluster resolved to.
C19_OneRowPerSegment ==
    [][(call'.op = "transcribe_file" /\ ret'.ok) =>
        LET segs == InputSegments(call')
            n == Len(segments)
        IN  /\ Len(segments') = n + Len(segs)
            /\ \A i \in 1..n : segments'[i] = segments[i]
            /\ \A i \in 1..Len(segs) :
                 /\ segments'[n + i].session_id = ret'.arg
                 /\ segments'[n + i].start_ms = segs[i].start_ms
                 /\ segments'[n + i].end_ms = segs[i].end_ms
                 /\ IF segs[i].speaker \in DOMAIN Buckets(call')
                    THEN /\ <<segments'[n + i].speaker_id,
                              segments'[n + i].speaker_label>>
                              = call'.profile[segs[i].speaker]
                         /\ \E t \in speakers' :
                              t.id = segments'[n + i].speaker_id
                    ELSE /\ segments'[n + i].speaker_id = NoId
                         /\ segments'[n + i].speaker_label = segs[i].speaker]_vars

\* a pass returned Ok for a segment of a cluster with audio and a segment,
\* beyond the end of the clip, of a cluster without
C19_Witness ==
    /\ call.op = "transcribe_file" /\ ret.ok /\ ret.arg = 1
    /\ Len(InputSegments(call)) = 2
    /\ Cardinality(DOMAIN Buckets(call)) = 1
    /\ Len(segments) = 2
    /\ \E i, j \in 1..2 :
         /\ segments[i].speaker_id # NoId
         /\ segments[i].speaker_label = "Speaker 1"
         /\ segments[j].speaker_id = NoId
         /\ segments[j].speaker_label \in Clusters
         /\ InputSegments(call)[j].speaker \notin DOMAIN Buckets(call)

\* ---- C20 ----------------------------------------------------------------
\* C20: every method of Db called while the connection lock is poisoned
\* returns the lock error and leaves the tables, the salt row and the handle
\* as they were.
C20_PoisonedLockFailsSafe ==
    [][(db.poisoned /\ ret'.op \in DbOperations) =>
        /\ ~ret'.ok
        /\ ret'.text = LockError
        /\ Store' = Store
        /\ salt' = salt
        /\ db' = db]_vars

\* insert_session was refused with the lock error on a keyed handle whose
\* lock a list_* method had poisoned over an unkeyed sessions row
C20_Witness ==
    /\ db.poisoned
    /\ db.key # NoKey
    /\ ret.op = "insert_session"
    /\ ret.text = LockError
    /\ ~ret.ok
    /\ \E x \in sessions : x.ct.key = NoKey

\* ---- C21 ----------------------------------------------------------------
\* C21: when no statement fails, a thread runs a statement of a method of
\* Db, a list_* or a write, only while no other thread has run some but not
\* all statements of its method.
C21_CallsSerialized ==
    [][\A t \in Threads :
         (callers.at[t].op # "none" /\ callers'.at[t] # callers.at[t]) =>
             \A u \in Threads \ {t} : callers.at[u].done = 0]_vars

\* delete_session has deleted the sessions row of a session that still has a
\* segments row while another thread waits in list_segments for that session
C21_Witness ==
    \E t, u \in Threads :
        /\ callers.holder = t
        /\ callers.at[t].op = "delete_session"
        /\ callers.at[t].done = 1
        /\ callers.at[u].op = "list_segments"
        /\ callers.at[u].arg.sid = callers.at[t].arg.sid
        /\ \A x \in sessions : x.id # callers.at[t].arg.sid
        /\ \E i \in 1..Len(segments) :
             segments[i].session_id = callers.at[t].arg.sid

\* ---- C22 ----------------------------------------------------------------
\* C22: a data command issued while AppState.db is None returns the
\* not-initialized error and changes neither the tables nor the salt row.
C22_LockedStoreRefuses ==
    [][(~db.open /\ ret'.op \in DataCommands) =>
        /\ ~ret'.ok
        /\ ret'.text = NotInitialized
        /\ Store' = Store
        /\ salt' = salt]_vars

\* ---- C23 ----------------------------------------------------------------
\* C23: when enable_encryption(password) returns Ok the store is open and
\* keyed, holds none of the rows it held before, and its salt row re-derives
\* the key of the handle from the same passphrase.
C23_EnableEncryptionStartsEmpty ==
    [][(ret'.op = "enable_encryption" /\ ret'.ok) =>
        /\ db'.open
        /\ db'.key # NoKey
        /\ sessions' = {}
        /\ speakers' = {}
        /\ segments' = <<>>
        /\ embeddings' = <<>>
        /\ salt' # NoSalt
        /\ crypto_new(ret'.text, salt', NoSalt).key = db'.key]_vars

\* ---- C24 ----------------------------------------------------------------
\* C24: a list_sessions, list_segments or list_embeddings call that meets a
\* row it cannot decrypt returns Err and no rows.
C24_ListFailsWhole ==
    [][(/\ ~db.poisoned
        /\ \/ /\ ret'.op = "list_sessions"
              /\ first_failure(newest_first(sessions), db) # "ok"
           \/ /\ ret'.op = "list_segments"
              /\ first_failure(segment_cts(Store, ret'.arg), db) # "ok"
           \/ /\ ret'.op = "list_embeddings"
              /\ first_failure([i \in 1..Len(embeddings) |-> embeddings[i].ct],
                               db) # "ok")
       => /\ ~ret'.ok
          /\ ret'.rows = 0
          /\ ret'.text # Panicked]_vars

\* ---- C25 ----------------------------------------------------------------
\* C25: a list_embeddings call whose rows all decrypt returns Ok with the
\* vectors of exactly the rows whose payload is a whole number of 4-byte
\* elements, in table order; a row of any other length is left out and does
\* not fail the call.
WholePayloads(payloads) == SelectSeq(payloads, LAMBDA b : b.len % 4 = 0)

C25_OddLengthRowsSkipped ==
    [][(/\ ret'.op = "list_embeddings"
        /\ ~db.poisoned
        /\ first_failure([i \in 1..Len(embeddings) |-> embeddings[i].ct], db)
             = "ok")
       => /\ ret'.ok
          /\ call'.vectors =
               [i \in 1..Len(WholePayloads(call'.payloads)) |->
                   WholePayloads(call'.payloads)[i].floats]]_vars

\* ---- C26 ----------------------------------------------------------------
\* C26: every cluster label in the mapping collect_audio_by_speaker returns
\* has at least one sample, whatever the clip and the segment list.
C26_NoEmptyBucket ==
    call.op = "collect_audio_by_speaker" =>
        \A c \in DOMAIN call.buckets : Len(call.buckets[c]) >= 1

\* a list with an empty, an inverted or a past-the-end segment next to one
\* that yields samples
C26_Witness ==
    /\ call.op = "collect_audio_by_speaker"
    /\ DOMAIN call.buckets # {}
    /\ \E i \in 1..Len(call.segments) :
         /\ call.segments[i].speaker \notin DOMAIN call.buckets
         /\ \/ call.segments[i].end_ms <= call.segments[i].start_ms
            \/ call.segments[i].start_ms >= ret.ms

\* ---- C27 ----------------------------------------------------------------
\* C27: for an absent or empty provider list normalize_segments returns one
\* segment: the synthetic label, start_ms 0, an end_ms not before the end of
\* the clip, the whole transcript as text.
C27_SyntheticSegment ==
    (call.op = "normalize_segments" /\ unwrap_or_default(call.segments) = <<>>)
    => /\ Len(call.out) = 1
       /\ call.out[1].speaker = "speaker_0"
       /\ call.out[1].start_ms = 0
       /\ call.out[1].end_ms >= ret.ms
       /\ call.out[1].end_ms > 0
       /\ call.out[1].text = call.transcript

\* the absent list over a clip longer than the default span
C27_Witness ==
    /\ call.op = "normalize_segments"
    /\ call.segments = NoSegments
    /\ ret.ms > DEFAULT_SPAN_MS
    /\ call.out[1].end_ms = ret.ms

\* ---- C30 ----------------------------------------------------------------
\* C30: best_match returns nothing or the first of the stored embeddings of
\* the query's length that no other such embedding outscores, and it returns
\* that one exactly when its score reaches the threshold; an embedding of
\* another length is never returned.
Comparable(i) == Len(call.known[i].vector) = Len(call.embedding)
\* the cosine of the query and stored embedding i is greater than that of
\* the query and stored embedding j
Outscores(i, j) ==
    LET a == dot(call.embedding, call.known[i].vector)
        b == dot(call.embedding, call.known[j].vector)
        ni == dot(call.known[i].vector, call.known[i].vector)
        nj == dot(call.known[j].vector, call.known[j].vector)
    IN  IF a > 0 /\ b > 0 THEN a * a * nj > b * b * ni
        ELSE IF a < 0 /\ b < 0 THEN a * a * nj < b * b * ni
        ELSE a > b
Highest ==
    {i \in 1..Len(call.known) :
        /\ Comparable(i)
        /\ \A j \in 1..Len(call.known) : Comparable(j) => ~Outscores(j, i)}

C30_BestMatchSelection ==
    call.op = "best_match" =>
        /\ call.best # 0 =>
             /\ call.best \in Highest
             /\ \A j \in Highest : call.best <= j
        /\ (Highest # {} /\ \E i \in Highest :
               at_least_threshold(cosine_similarity(call.embedding,
                                                    call.known[i].vector)))
             => call.best # 0

\* two stored embeddings share the highest score, behind one of another
\* length, and the first of the two is returned
C30_Witness ==
    /\ call.op = "best_match"
    /\ Cardinality(Highest) >= 2
    /\ \E i \in 1..Len(call.known) : ~Comparable(i) /\ i < call.best
    /\ call.best # 0
    /\ \E j \in Highest : j > call.best

\* ---- C28 ----------------------------------------------------------------
\* C28: once the writer has finalized the file of a recording that was
\* stopped, the file holds every chunk that was in the channel when stop()
\* sent the stop signal.
C28_QueuedChunksWritten ==
    (recorder.stop_sent /\ recorder.finalized) =>
        \A i \in 1..Len(recorder.queued_at_stop) :
            \E k \in 1..Len(recorder.file) :
                recorder.file[k] = recorder.queued_at_stop[i]

\* ---- C29 ----------------------------------------------------------------
\* C29: stop() returns Ok only when the recorder thread and the writer thread
\* have ended and the file is finalized; when the writer thread failed, stop()
\* returns Err.
C29_StopAwaitsBothThreads ==
    [][(ret'.op = "stop" /\ recorder.stopping /\ ~recorder'.stopping) =>
        /\ ret'.ok => /\ recorder.rec = "done"
                      /\ recorder.wr = "finalized"
                      /\ recorder.finalized
        /\ recorder.wr = "failed" => ~ret'.ok]_vars

\* stop() has returned Ok for a recording whose file holds a chunk
C29_Witness ==
    /\ ret.op = "stop"
    /\ ret.ok
    /\ ~recorder.stopping
    /\ recorder.finalized
    /\ recorder.file # <<>>

\* ---- C31 ----------------------------------------------------------------
\* C31: in a pass of two clusters that returns Ok, when neither vector scores
\* at least 0.78 against an embedding stored before the pass and the second
\* cluster's vector scores at least 0.78 against the first's, the second
\* cluster resolves to the speaker the pass inserted for the first and the
\* pass adds that one speaker only.
C31_LaterClusterMatchesEarlier ==
    [][(call'.op = "transcribe_file" /\ ret'.ok /\ Len(call'.order) = 2) =>
        LET k1 == call'.order[1]
            k2 == call'.order[2]
            v1 == call'.vecs[k1]
            v2 == call'.vecs[k2]
            known == list_embeddings(Store, db).rows
        IN  (/\ Hits(known, v1) = {}
             /\ Hits(known, v2) = {}
             /\ Len(v1) = Len(v2)
             /\ Similar(v2, v1))
            => /\ call'.profile[k1][1] = nextSpeaker
               /\ call'.profile[k2][1] = nextSpeaker
               /\ call'.profile[k2][2] = call'.profile[k1][2]
               /\ nextSpeaker' = nextSpeaker + 1
               /\ Cardinality(speakers') = Cardinality(speakers) + 1]_vars

\* a pass over a store that held a speaker of another voice returned Ok for
\* two clusters of different vectors, the second scoring exactly 0.78 against
\* the first, and both embeddings belong to the one speaker it added
C31_Witness ==
    /\ call.op = "transcribe_file" /\ ret.ok
    /\ Len(call.order) = 2
    /\ call.vecs[call.order[1]] = <<7, 1, 0>>
    /\ call.vecs[call.order[2]] = <<5, 4, 3>>
    /\ Cardinality(speakers) = 2
    /\ Len(embeddings) = 3
    /\ embeddings[1].source_session_id # ret.arg
    /\ embeddings[2].source_session_id = ret.arg
    /\ embeddings[3].source_session_id = ret.arg
    /\ embeddings[2].speaker_id = embeddings[3].speaker_id
    /\ embeddings[1].speaker_id # embeddings[2].speaker_id

\* ---- C32 ----------------------------------------------------------------
\* the samples of segment g of the clip: from the sample at floor(start) up
\* to the one before ceil(end), both cut at the end of the clip
SampleRange(audio, g) ==
    LET from == Min((g.start_ms * audio.sample_rate) \div 1000, Len(audio.samples))
        to == Min((g.end_ms * audio.sample_rate + 999) \div 1000, Len(audio.samples))
    IN  IF to <= from THEN <<>> ELSE SubSeq(audio.samples, from + 1, to)

\* the ranges of the segments of cluster c among the first n, one after
\* another
RECURSIVE ClusterSamples(_, _, _, _)
ClusterSamples(audio, segs, c, n) ==
    IF n = 0 THEN <<>>
    ELSE ClusterSamples(audio, segs, c, n - 1)
           \o (IF segs[n].speaker = c THEN SampleRange(audio, segs[n]) ELSE <<>>)

SampleCap(audio) == IF audio.sample_rate * 10 < 1 THEN 1 ELSE audio.sample_rate * 10

\* C32: collect_audio_by_speaker maps every cluster whose segments hold
\* samples to the first min(cap, total) of them, taken in segment order, with
\* cap = max(1, sample_rate * 10), and maps no other cluster.
C32_BucketIsCappedPrefix ==
    call.op = "collect_audio_by_speaker" =>
        \A c \in Clusters :
            LET all == ClusterSamples(call.audio, call.segments, c,
                                      Len(call.segments))
                cap == SampleCap(call.audio)
            IN  IF all = <<>> THEN c \notin DOMAIN call.buckets
                ELSE /\ c \in DOMAIN call.buckets
                     /\ call.buckets[c]
                          = SubSeq(all, 1, IF Len(all) < cap THEN Len(all) ELSE cap)

\* two segments of one cluster hold more samples than the cap, the first of
\* them fewer, and the bucket is filled to the cap
C32_Witness ==
    /\ call.op = "collect_audio_by_speaker"
    /\ Len(call.segments) = 2
    /\ call.segments[1].speaker = call.segments[2].speaker
    /\ SampleRange(call.audio, call.segments[1]) # <<>>
    /\ Len(SampleRange(call.audio, call.segments[1])) < SampleCap(call.audio)
    /\ Len(ClusterSamples(call.audio, call.segments, call.segments[1].speaker, 2))
         > SampleCap(call.audio)
    /\ Len(call.buckets[call.segments[1].speaker]) = SampleCap(call.audio)

\* ---- C33 ----------------------------------------------------------------
\* C33: a delete_session, rename_speaker or delete_speaker in which a
\* statement fails after at least one succeeded returns an error, and the
\* tables hold the effects of exactly the statements that succeeded.
C33_CascadeNotAtomic ==
    [][(call = NoCall /\ call' # NoCall /\ call'.fuel >= 1) =>
        LET id == call'.id
            k == call'.fuel
        IN  /\ (call'.op = "delete_session" /\ k < 3) =>
                 /\ ~ret'.ok
                 /\ sessions' = {x \in sessions : x.id # id}
                 /\ segments' = IF k = 2
                                THEN SelectSeq(segments,
                                               LAMBDA g : g.session_id # id)
                                ELSE segments
                 /\ embeddings' = embeddings
                 /\ speakers' = speakers
            /\ (call'.op = "rename_speaker" /\ k < 2) =>
                 /\ ~ret'.ok
                 /\ speakers' = {IF x.id = id THEN [x EXCEPT !.label = ret'.text]
                                 ELSE x : x \in speakers}
                 /\ segments' = segments
                 /\ embeddings' = embeddings
                 /\ sessions' = sessions
            /\ (call'.op = "delete_speaker" /\ k < 3) =>
                 /\ ~ret'.ok
                 /\ embeddings' = SelectSeq(embeddings,
                                            LAMBDA e : e.speaker_id # id)
                 /\ speakers' = IF k = 2 THEN {x \in speakers : x.id # id}
                                ELSE speakers
                 /\ segments' = segments
                 /\ sessions' = sessions]_vars

\* delete_session returned an error after its first statement: the session
\* row is gone, a segment and an embedding of the session are still there
C33_Witness ==
    /\ call # NoCall
    /\ call.op = "delete_session"
    /\ call.fuel = 1
    /\ ~ret.ok
    /\ \A x \in sessions : x.id # call.id
    /\ \E i \in 1..Len(segments) : segments[i].session_id = call.id
    /\ \E i \in 1..Len(embeddings) : embeddings[i].source_session_id = call.id

\* ---- C34 ----------------------------------------------------------------
\* C34: at most one thread is between taking the guard of AppState.db and
\* the end of its transcribe_file; the listings a pass has read are those of
\* the store as it is, so they hold every write of the passes before it and
\* its label counter is seeded from the present number of speakers; no two
\* speakers get the same generated label.
C34_PassesDoNotInterleave ==
    /\ \A t, u \in Threads :
         (t # u /\ callers.at[t].done >= 1) => callers.at[u].done = 0
    /\ \A t \in Threads :
         (callers.at[t].op = "transcribe_file" /\ callers.at[t].done = 3) =>
             /\ callers.app = t
             /\ callers.at[t].arg.next = Cardinality(speakers) + 1
             /\ Len(callers.at[t].arg.known) = Len(embeddings)
    /\ \A x, y \in speakers : x.id # y.id => x.label # y.label

\* a pass has read its listings after an earlier pass added a speaker, while
\* the other thread waits for the guard
C34_Witness ==
    \E t, u \in Threads :
        /\ callers.at[t].op = "transcribe_file"
        /\ callers.at[t].done = 3
        /\ callers.at[t].arg.next = 2
        /\ Len(callers.at[t].arg.known) = 1
        /\ callers.at[u].op = "transcribe_file"
        /\ callers.at[u].done = 0
        /\ u # t

\* ---- C35 ----------------------------------------------------------------
\* C35: a start while a recorder is current returns "Recording already in
\* progress" and leaves the recorder as it was; a start is accepted only
\* when none is current, and is accepted then unless no device is found; a
\* stop with no recorder current returns "No active recording"; once stop
\* has returned nothing is current and no thread or stream of the recording
\* is left, so the recorder and writer threads of two recordings never run
\* at the same time.
C35_OneRecordingAtATime ==
    [][/\ steps' # steps =>
            /\ ret'.op = "start"
            /\ recorder.current =>
                   /\ ~ret'.ok
                   /\ ret'.text = "Recording already in progress"
                   /\ recorder' = recorder
            /\ ~recorder.current =>
                   \/ ret'.ok /\ recorder'.current
                   \/ /\ ~ret'.ok
                      /\ ret'.text = "No input device found"
                      /\ recorder' = recorder
       /\ (steps' = steps /\ ~recorder.current /\ ~recorder.stopping
               /\ ret' # ret) =>
            /\ ret'.op = "stop"
            /\ ~ret'.ok
            /\ ret'.text = "No active recording"
            /\ recorder' = recorder
       /\ (recorder.stopping /\ ~recorder'.stopping) =>
            /\ ret'.op = "stop"
            /\ ~recorder'.current
       /\ (~recorder'.current /\ ~recorder'.stopping) =>
            /\ recorder'.rec \in {"none", "done", "failed"}
            /\ recorder'.wr \in {"none", "finalized", "failed"}
            /\ ~recorder'.stream
      ]_vars

\* stop has returned the file of the first recording and the manager is
\* idle, with a start still to come
C35_Witness ==
    /\ ret.op = "stop"
    /\ ret.ok
    /\ recorder.rec = "done"
    /\ ~recorder.current
    /\ ~recorder.stopping
    /\ steps = 1
    /\ steps < MaxRecordings

\* ---- C36 ----------------------------------------------------------------
\* C36: a pass in which every call succeeds ends with the same labels of the
\* speakers, the same diarization_to_profile map and the same number of
\* speakers whatever the order in which the buckets of
\* collect_audio_by_speaker are iterated, the store, the clip, the segments
\* and the embedder's outputs being the same.
C36_PassIndependentOfOrder ==
    [][(call = NoCall /\ call' # NoCall /\ ret'.ok
           /\ call'.fuel = PassCalls(Buckets(call'), InputSegments(call'))) =>
          \A o2 \in Orders(DOMAIN Buckets(call')) :
              \E r \in {transcribe_file(Store, db, call'.api, call'.transcript,
                                        call'.audio, o2, call'.vecs,
                                        call'.fuel)} :
                  /\ r.ok
                  /\ r.d.speakers = speakers'
                  /\ r.profile = call'.profile
                  /\ r.d.nextSpeaker = nextSpeaker'
      ]_vars
====
